---- MODULE Spec2Model ----
(***************************************************************************)
(* Model of the project-context cache (src/src/context.rs), the            *)
(* refresh_project_context tool (src/src/tools/context.rs), the /workload  *)
(* report (src/src/interactive.rs, src/src/gitlab_tools.rs), the config    *)
(* file (src/src/config.rs) and the interactive session                    *)
(* (src/src/interactive.rs) of ken.                                        *)
(*                                                                         *)
(* Time is counted in whole minutes.  Option<T> is a sequence of length    *)
(* 0 (None) or 1 (Some).  An HTTP exchange is a record [status, body]      *)
(* with status "ok" (2xx and a decodable JSON array), "non_2xx", or        *)
(* "error" (transport failure or undecodable body).                        *)
(***************************************************************************)
EXTENDS Integers, Sequences, FiniteSets, TLC

VARIABLES
    cmd,        \* the operation that is running
    pc,         \* position of the running operation
    now,        \* wall clock (chrono::Utc::now), in minutes
    disk,       \* Option<ProjectContext>: the cache file of the project
    context,    \* the ProjectContext the running operation holds
    workload_data, \* fetch_workload_data: the WorkloadData being built
    i,          \* loop index of the per-member loops
    members,    \* analyze_workload_direct: Vec<ProjectMember>
    workloads,  \* analyze_workload_direct: Vec<(member, issues, mrs, load_score)>
    table,      \* analyze_workload_direct: the printed table rows
    summary,    \* analyze_workload_direct: Option<the printed summary lines>
    ret,        \* Option<result of the operation>
    fetched,    \* history: what every HTTP exchange of the operation answered
    contexts_dir, \* ~/.ken/contexts: file name -> Option<document>
    call,       \* the last call of ProjectContext::load or save, with its result
    prompt,     \* a context and the texts to_prompt_context has made of it
    session     \* KenSession, its config file, its child processes and its shell loop

vars == <<cmd, pc, now, disk, context, workload_data, i, members, workloads, table, summary,
          ret, fetched, contexts_dir, call, prompt, session>>

\* the variables of the calls of load and save on the cache directory
cacheVars == <<contexts_dir, call>>

\* no call of load or save on the cache directory is under way
NoCacheCall == contexts_dir = <<>> /\ call = [op |-> "none"]

promptVars == <<prompt>>

\* no text is being rendered
NoPrompt == prompt = [context |-> <<>>, texts |-> <<>>]

sessionVars == <<session>>

\* no interactive session is open
NoSession == session = [pc |-> "none"]

----------------------------------------------------------------------------
(* Bounds of the model *)

MaxMinutes == 130
MaxMembers == 2
MaxIssues == 1
MaxMRs == 4

----------------------------------------------------------------------------
(* Option, Result *)

None == <<>>
Some(x) == <<x>>
IsSome(o) == Len(o) = 1
IsNone(o) == Len(o) = 0
Unwrap(o) == o[1]

Ok(v) == [ok |-> TRUE, val |-> v]
Err == [ok |-> FALSE, val |-> <<>>]

----------------------------------------------------------------------------
(* Timestamps.  A stored string is [rfc3339, t]: rfc3339 says whether     *)
(* chrono::DateTime::parse_from_rfc3339 accepts it, t is the instant it    *)
(* denotes.                                                                *)

to_rfc3339(t) == [rfc3339 |-> TRUE, t |-> t]
Garbage == [rfc3339 |-> FALSE, t |-> 0]
parse_from_rfc3339(s) == IF s.rfc3339 THEN Ok(s.t) ELSE Err

\* chrono::Duration::num_hours: integer division truncating toward zero
num_hours(minutes) ==
    IF minutes >= 0 THEN minutes \div 60 ELSE -((-minutes) \div 60)

\* ProjectContext::is_stale
is_stale(last_updated, clock) ==
    IF IsSome(last_updated) /\ parse_from_rfc3339(Unwrap(last_updated)).ok
    THEN num_hours(clock - parse_from_rfc3339(Unwrap(last_updated)).val) > 1
    ELSE TRUE

----------------------------------------------------------------------------
(* The context record *)

EmptyMap == [k \in {} |-> 0]

WorkloadData_default ==
    [user_assignments |-> EmptyMap, unassigned_issues |-> <<>>, total_open_issues |-> 0]

IssuePatterns_default ==
    [most_used_labels |-> <<>>, active_assignees |-> <<>>,
     common_keywords |-> <<>>, priority_levels |-> <<>>]

\* variant: a refresh starts from the cached document when there is one
ProjectContext_from_cache(project_id) ==
    IF IsSome(disk) /\ Unwrap(disk).valid
    THEN Unwrap(disk).json
    ELSE [project_id |-> project_id,
          labels |-> <<>>,
          users |-> <<>>,
          milestones |-> <<>>,
          teams |-> EmptyMap,
          hot_issues |-> <<>>,
          issue_patterns |-> IssuePatterns_default,
          workload_data |-> WorkloadData_default,
          last_updated |-> None]

\* ProjectContext::new
ProjectContext_new(project_id) ==
    [project_id |-> project_id,
     labels |-> <<>>,
     users |-> <<>>,
     milestones |-> <<>>,
     teams |-> EmptyMap,
     hot_issues |-> <<>>,
     issue_patterns |-> IssuePatterns_default,
     workload_data |-> WorkloadData_default,
     last_updated |-> None]

ProjectId == "group/repo"

\* ProjectContext::update_timestamp
update_timestamp(c, clock) == [c EXCEPT !.last_updated = Some(to_rfc3339(clock))]

----------------------------------------------------------------------------
(* HTTP exchanges and JSON values *)

Responses(bodies) ==
    {[status |-> "ok", body |-> b] : b \in bodies}
        \cup {[status |-> "non_2xx", body |-> <<>>], [status |-> "error", body |-> <<>>]}

\* What the history keeps of an exchange: whether it succeeded, and its body
Seen(resp) == [ok |-> resp.status = "ok", body |-> resp.body]

NothingFetched ==
    [labels |-> None, members |-> None, milestones |-> None, open_issues |-> None,
     users |-> <<>>, unassigned |-> None, cache |-> None, force |-> None]

\* serde_json::Value, as far as the code looks at it: a field that is absent,
\* null, a user object, or an array
JAbsent == [t |-> "absent", username |-> "", items |-> <<>>]
JNull == [t |-> "null", username |-> "", items |-> <<>>]
JUser(u) == [t |-> "object", username |-> u, items |-> <<>>]
JArray(s) == [t |-> "array", username |-> "", items |-> s]

\* Value::get(key): None when the key is absent
Get(field) == IF field.t = "absent" THEN None ELSE Some(field)

JIssue(iid, assignee, assignees) ==
    [iid |-> iid, assignee |-> assignee, assignees |-> assignees]

\* n open issues assigned to u, as GitLab lists them
UserIssues(u, n) == [k \in 1..n |-> JIssue(k, JUser(u), JArray(<<JUser(u)>>))]
\* n open merge requests
UserMRs(n) == [k \in 1..n |-> [iid |-> k]]

AllNames == <<"alice", "bob", "carol", "dave">>

----------------------------------------------------------------------------
(* src/src/context.rs: the fetchers of the context refresh *)

HotIssue(id, assignee) == [id |-> id, assignee |-> assignee]
MergeRequest(id) == [id |-> id]
ProjectLabel(name, usage_count) == [name |-> name, usage_count |-> usage_count]
ProjectUser(username, role) == [username |-> username, role |-> role]
ProjectMilestone(title, state) == [title |-> title, state |-> state]

MapSeq(Op(_), s) == [k \in 1..Len(s) |-> Op(s[k])]

\* the role names of the access levels; other is the name of any other level
role_name(level, other) ==
    CASE level = 10 -> "Guest"
      [] level = 20 -> "Reporter"
      [] level = 30 -> "Developer"
      [] level = 40 -> "Maintainer"
      [] level = 50 -> "Owner"
      [] OTHER -> other

\* ProjectContext::fetch_labels
fetch_labels(resp) ==
    IF resp.status = "error" THEN Err
    ELSE IF resp.status = "non_2xx" THEN Ok(<<>>)
    ELSE LET mk(label) == ProjectLabel(label.name, None)
         IN  Ok(MapSeq(mk, resp.body))

\* ProjectContext::fetch_project_members
fetch_project_members(resp) ==
    IF resp.status = "error" THEN Err
    ELSE IF resp.status = "non_2xx" THEN Ok(<<>>)
    ELSE LET mk(member) ==
                 ProjectUser(member.username, Some(role_name(member.access_level, "Member")))
         IN  Ok(MapSeq(mk, resp.body))

\* ProjectContext::fetch_milestones
fetch_milestones(resp) ==
    IF resp.status = "error" THEN Err
    ELSE IF resp.status = "non_2xx" THEN Ok(<<>>)
    ELSE LET mk(milestone) == ProjectMilestone(milestone.title, milestone.state)
         IN  Ok(MapSeq(mk, resp.body))

\* the assignee of fetch_all_open_issues: the first entry of `assignees`,
\* else the single `assignee`
first_assignee(issue) ==
    IF /\ issue.assignees.t = "array"
       /\ issue.assignees.items # <<>>
       /\ issue.assignees.items[1].t = "object"
    THEN Some(issue.assignees.items[1].username)
    ELSE IF issue.assignee.t = "object" THEN Some(issue.assignee.username)
    ELSE None

\* ProjectContext::fetch_all_open_issues
fetch_all_open_issues(resp) ==
    IF resp.status = "error" THEN Err
    ELSE IF resp.status = "non_2xx" THEN Ok(<<>>)
    ELSE LET mk(issue) == HotIssue(issue.iid, first_assignee(issue))
         IN  Ok(MapSeq(mk, resp.body))

\* ProjectContext::fetch_user_issues
fetch_user_issues(resp, username) ==
    IF resp.status = "error" THEN Err
    ELSE IF resp.status = "non_2xx" THEN Ok(<<>>)
    ELSE LET mk(issue) == HotIssue(issue.iid, Some(username))
         IN  Ok(MapSeq(mk, resp.body))

\* ProjectContext::fetch_user_mrs
fetch_user_mrs(resp) ==
    IF resp.status = "error" THEN Err
    ELSE IF resp.status = "non_2xx" THEN Ok(<<>>)
    ELSE LET mk(mr) == MergeRequest(mr.iid)
         IN  Ok(MapSeq(mk, resp.body))

\* has_assignee of fetch_unassigned_issues
has_assignee(issue) ==
    \/ (IsSome(Get(issue.assignee)) /\ issue.assignee.t = "object")
    \/ (IsSome(Get(issue.assignees)) /\ issue.assignees.t = "array"
            /\ issue.assignees.items # <<>>)

RECURSIVE FilterSeq(_, _)
FilterSeq(Keep(_), s) ==
    IF s = <<>> THEN <<>>
    ELSE (IF Keep(Head(s)) THEN <<Head(s)>> ELSE <<>>) \o FilterSeq(Keep, Tail(s))

\* ProjectContext::fetch_unassigned_issues
fetch_unassigned_issues(resp) ==
    IF resp.status = "error" THEN Err
    ELSE IF resp.status = "non_2xx" THEN Ok(<<>>)
    ELSE LET keep(issue) == ~has_assignee(issue)
             mk(issue) == HotIssue(issue.iid, None)
         IN  Ok(MapSeq(mk, FilterSeq(keep, resp.body)))

\* variant: a failed fetch of the unassigned issues fails the aggregation
with_unassigned_or_fail(wd, r) ==
    IF r.ok THEN Ok([wd EXCEPT !.unassigned_issues = r.val]) ELSE Err

\* "if let Ok(unassigned) = ... { workload_data.unassigned_issues = unassigned; }"
with_unassigned(wd, r) ==
    Ok(IF r.ok THEN [wd EXCEPT !.unassigned_issues = r.val] ELSE wd)

\* HashMap::insert
Insert(map, key, value) ==
    [k \in DOMAIN map \cup {key} |-> IF k = key THEN value ELSE map[k]]

RECURSIVE SumOver(_, _)
\* sum of f[k] over the keys in ks
SumOver(f, ks) ==
    IF ks = {} THEN 0
    ELSE LET k == CHOOSE x \in ks : TRUE IN f[k] + SumOver(f, ks \ {k})

\* variant: the score counts a merge request once
user_workload_unweighted(username, issues, mrs) ==
    LET issue_count == IF issues.ok THEN Len(issues.val) ELSE 0
        mr_count == IF mrs.ok THEN Len(mrs.val) ELSE 0
    IN  [username |-> username,
         open_issues |-> IF issues.ok THEN issues.val ELSE <<>>,
         open_mrs |-> IF mrs.ok THEN mrs.val ELSE <<>>,
         issue_count |-> issue_count,
         mr_count |-> mr_count,
         total_score |-> issue_count + mr_count]

\* variant: one failed fetch discards the member's other fetch too
user_workload_all_or_nothing(username, issues, mrs) ==
    LET both == issues.ok /\ mrs.ok
        issue_count == IF both THEN Len(issues.val) ELSE 0
        mr_count == IF both THEN Len(mrs.val) ELSE 0
    IN  [username |-> username,
         open_issues |-> IF both THEN issues.val ELSE <<>>,
         open_mrs |-> IF both THEN mrs.val ELSE <<>>,
         issue_count |-> issue_count,
         mr_count |-> mr_count,
         total_score |-> issue_count + (mr_count * 2)]

\* user_workload of one iteration of the loop of fetch_workload_data
user_workload_of(username, issues, mrs) ==
    LET issue_count == IF issues.ok THEN Len(issues.val) ELSE 0
        mr_count == IF mrs.ok THEN Len(mrs.val) ELSE 0
    IN  [username |-> username,
         open_issues |-> IF issues.ok THEN issues.val ELSE <<>>,
         open_mrs |-> IF mrs.ok THEN mrs.val ELSE <<>>,
         issue_count |-> issue_count,
         mr_count |-> mr_count,
         total_score |-> issue_count + (mr_count * 2)]

\* variant: every member is stored
has_work_always(w) == TRUE

\* "Only store users with actual work"
has_work(w) == w.issue_count > 0 \/ w.mr_count > 0

\* variant: the total leaves out the unassigned issues
total_assigned_only(wd) ==
    LET counts == [u \in DOMAIN wd.user_assignments |-> wd.user_assignments[u].issue_count]
    IN  SumOver(counts, DOMAIN counts)

\* "Calculate total open issues"
total_open_issues_of(wd) ==
    LET counts == [u \in DOMAIN wd.user_assignments |-> wd.user_assignments[u].issue_count]
    IN  SumOver(counts, DOMAIN counts) + Len(wd.unassigned_issues)

----------------------------------------------------------------------------
(* src/src/gitlab_tools.rs: the typed client of the /workload report *)

\* GitLabTools::get_project_members
get_project_members(resp) ==
    IF resp.status # "ok" THEN Err
    ELSE LET mk(member) == [username |-> member.username]
         IN  Ok(MapSeq(mk, resp.body))

\* GitLabTools::parse_user
parse_user(user_data) ==
    IF IsNone(user_data) THEN None
    ELSE Some([username |-> IF Unwrap(user_data).t = "object"
                            THEN Unwrap(user_data).username ELSE ""])

\* GitLabTools::parse_issue
parse_issue(issue) ==
    LET one(u) == Unwrap(parse_user(Some(u)))
    IN  [iid |-> issue.iid,
         assignee |-> parse_user(Get(issue.assignee)),
         assignees |-> IF issue.assignees.t = "array"
                       THEN MapSeq(one, issue.assignees.items) ELSE <<>>]

\* GitLabTools::get_issues_by_assignee
get_issues_by_assignee(resp) ==
    IF resp.status # "ok" THEN Err ELSE Ok(MapSeq(parse_issue, resp.body))

\* GitLabTools::get_mrs_by_assignee
get_mrs_by_assignee(resp) ==
    IF resp.status # "ok" THEN Err
    ELSE LET mk(mr) == [iid |-> mr.iid]
         IN  Ok(MapSeq(mk, resp.body))

\* GitLabTools::get_all_open_issues
get_all_open_issues(resp) ==
    IF resp.status # "ok" THEN Err ELSE Ok(MapSeq(parse_issue, resp.body))

\* Result::unwrap_or_default
unwrap_or_default(r) == IF r.ok THEN r.val ELSE <<>>

----------------------------------------------------------------------------
(* src/src/interactive.rs: the pieces of analyze_workload_direct *)

\* load_score of one iteration of the member loop
load_score_of(issues, mrs) == Len(issues) + (Len(mrs) * 2)

\* the row pushed for a member: (member, issues.len(), mrs.len(), load_score)
Row(member, issues, mrs) ==
    [member |-> member, issues |-> Len(issues), mrs |-> Len(mrs),
     load_score |-> load_score_of(issues, mrs)]

\* "if load_score > 0"
is_active(load_score) == load_score > 0

RECURSIVE InsertSortedBefore(_, _)
\* variant: x goes before the rows of an equal score
InsertSortedBefore(sorted, x) ==
    IF sorted = <<>> THEN <<x>>
    ELSE IF Head(sorted).load_score > x.load_score
         THEN <<Head(sorted)>> \o InsertSortedBefore(Tail(sorted), x)
         ELSE <<x>> \o sorted

RECURSIVE InsertSorted(_, _)
\* x goes behind every row that the comparator b.3.cmp(&a.3) does not put
\* after it: behind every row of a greater or equal score (stable)
InsertSorted(sorted, x) ==
    IF sorted = <<>> THEN <<x>>
    ELSE IF Head(sorted).load_score >= x.load_score
         THEN <<Head(sorted)>> \o InsertSorted(Tail(sorted), x)
         ELSE <<x>> \o sorted

RECURSIVE SortInto(_, _)
SortInto(sorted, rest) ==
    IF rest = <<>> THEN sorted
    ELSE SortInto(InsertSorted(sorted, Head(rest)), Tail(rest))

\* workloads.sort_by(|a, b| b.3.cmp(&a.3))
sort_by_load_score(rows) == SortInto(<<>>, rows)

\* variant: a score of 8 is already High
status_of_from_8(score) ==
    IF score >= 8 THEN "High"
    ELSE IF score >= 4 THEN "Medium"
    ELSE "Low"

\* the status column of the table
status_of(score) ==
    IF score > 8 THEN "High"
    ELSE IF score >= 4 THEN "Medium"
    ELSE "Low"

TableRow(w) == [member |-> w.member, issues |-> w.issues, mrs |-> w.mrs,
                load_score |-> w.load_score, status |-> status_of(w.load_score)]

Count(Keep(_), s) == Cardinality({k \in 1..Len(s) : Keep(s[k])})

\* the three bucket lines of the summary
high_count(rows) == LET keep(w) == w.load_score > 8 IN Count(keep, rows)
medium_count(rows) ==
    LET keep(w) == w.load_score >= 4 /\ w.load_score <= 8 IN Count(keep, rows)
low_count(rows) == LET keep(w) == w.load_score < 4 IN Count(keep, rows)

\* "filter(|issue| issue.assignee.is_none())"
is_unassigned(issue) == IsNone(issue.assignee)

unassigned_of(all_issues) == FilterSeq(is_unassigned, all_issues)

----------------------------------------------------------------------------
(* What GitLab may answer *)

IssueShapes ==
    {JIssue(1, a, as) : a \in {JAbsent, JNull, JUser("alice")},
                        as \in {JAbsent, JArray(<<>>), JArray(<<JUser("bob")>>)}}

\* bodies of GET /projects/:id/issues?state=opened
OpenIssueBodies ==
    {<<>>} \cup {<<issue>> : issue \in IssueShapes}
        \cup {<<JIssue(1, JNull, JArray(<<>>)), JIssue(2, JNull, JArray(<<>>))>>,
              <<JIssue(1, JUser("bob"), JArray(<<JUser("bob"), JUser("alice")>>)),
                JIssue(2, JNull, JArray(<<>>))>>}

\* bodies of GET /projects/:id/members/all, as the /workload report gets them
ReportMemberBodies ==
    {[k \in 1..n |-> [username |-> AllNames[k]]] : n \in 0..MaxMembers}

\* member lists handed to fetch_workload_data: any order, repetitions included
UserLists ==
    UNION {[1..n -> {ProjectUser("alice", Some("Developer")), ProjectUser("bob", Some("Owner"))}] :
              n \in 0..MaxMembers}

\* bodies of the per-member fetches of the /workload report
ReportIssueBodies(u) == {UserIssues(u, n) : n \in 0..MaxIssues}
ReportMRBodies == {UserMRs(n) : n \in 0..MaxMRs}

\* bodies of the per-member fetches of the context refresh
CtxIssueBodies(u) == {UserIssues(u, 0), UserIssues(u, 1), UserIssues(u, 2)}
CtxMRBodies == {UserMRs(0), UserMRs(1)}

----------------------------------------------------------------------------
(* Staleness specification: a clock, a context whose timestamp is absent,  *)
(* unparsable, or a stamp, and calls of is_stale and update_timestamp.     *)

InitStale ==
    /\ cmd = "is_stale"
    /\ pc = "stale"
    /\ now = 0
    /\ disk = None
    /\ \E lu \in {None, Some(Garbage), Some(to_rfc3339(0)), Some(to_rfc3339(MaxMinutes))} :
         context = [ProjectContext_new(ProjectId) EXCEPT !.last_updated = lu]
    /\ workload_data = WorkloadData_default
    /\ i = 0
    /\ members = <<>>
    /\ workloads = <<>>
    /\ table = <<>>
    /\ summary = None
    /\ ret = None
    /\ fetched = NothingFetched
    /\ NoCacheCall
    /\ NoPrompt
    /\ NoSession

Tick ==
    /\ pc = "stale"
    /\ now < MaxMinutes
    /\ now' = now + 1
    /\ ret' = None
    /\ UNCHANGED <<cacheVars, promptVars, sessionVars>>
    /\ UNCHANGED <<cmd, pc, disk, context, workload_data, i, members, workloads, table, summary,
                   fetched>>

UpdateTimestamp ==
    /\ pc = "stale"
    /\ context' = update_timestamp(context, now)
    /\ ret' = None
    /\ UNCHANGED <<cacheVars, promptVars, sessionVars>>
    /\ UNCHANGED <<cmd, pc, now, disk, workload_data, i, members, workloads, table, summary,
                   fetched>>

IsStale ==
    /\ pc = "stale"
    /\ ret' = Some(is_stale(context.last_updated, now))
    /\ UNCHANGED <<cacheVars, promptVars, sessionVars>>
    /\ UNCHANGED <<cmd, pc, now, disk, context, workload_data, i, members, workloads, table,
                   summary, fetched>>

NextStale == Tick \/ UpdateTimestamp \/ IsStale

SpecStale == InitStale /\ [][NextStale]_vars

\* Age of the context's timestamp in minutes, when it has a parsable one
HasStamp == IsSome(context.last_updated) /\ Unwrap(context.last_updated).rfc3339
Age == now - Unwrap(context.last_updated).t

\* C1: is_stale answers true exactly when last_updated is absent, is not a
\* parsable RFC-3339 timestamp, or lies more than 60 minutes before the
\* current time; for a timestamp at most 60 minutes in the past it answers
\* false.
C1_StaleAfter60Minutes ==
    (pc = "stale" /\ IsSome(ret)) =>
        (Unwrap(ret) = (~HasStamp \/ Age > 60))

----------------------------------------------------------------------------
(* ProjectContext::fetch_workload_data (src/src/context.rs) *)

\* one iteration of "for (i, user) in users.iter().enumerate()"
FW_User ==
    /\ pc = "fw_loop"
    /\ i <= Len(context.users)
    /\ LET username == context.users[i].username
       IN  \E ri \in Responses(CtxIssueBodies(username)), rm \in Responses(CtxMRBodies) :
             LET w == user_workload_of(username, fetch_user_issues(ri, username),
                                       fetch_user_mrs(rm))
             IN  /\ workload_data' =
                        IF has_work(w)
                        THEN [workload_data EXCEPT
                                !.user_assignments = Insert(@, username, w)]
                        ELSE workload_data
                 /\ fetched' = [fetched EXCEPT
                        !.users = Append(@, [issues |-> Seen(ri), mrs |-> Seen(rm)])]
    /\ i' = i + 1
    /\ UNCHANGED <<cacheVars, promptVars, sessionVars>>
    /\ UNCHANGED <<cmd, pc, now, disk, context, members, workloads, table, summary, ret>>

\* after the loop: the unassigned issues, the total, and the return; the
\* caller fetch_from_gitlab applies `?` to the result
FW_Unassigned ==
    /\ pc = "fw_loop"
    /\ i > Len(context.users)
    /\ \E resp \in Responses(OpenIssueBodies) :
         LET wd1 == with_unassigned(workload_data, fetch_unassigned_issues(resp))
             wd2 == [wd1.val EXCEPT !.total_open_issues = total_open_issues_of(wd1.val)]
             result == IF wd1.ok THEN Ok(wd2) ELSE Err
         IN  /\ workload_data' = IF result.ok THEN wd2 ELSE workload_data
             /\ fetched' = [fetched EXCEPT !.unassigned = Some(Seen(resp))]
             /\ IF cmd = "fetch_workload_data"
                THEN pc' = "done" /\ ret' = Some(result)
                ELSE IF result.ok
                THEN pc' = "ff_stamp" /\ ret' = ret
                ELSE pc' = "done" /\ ret' = Some(Err)
    /\ UNCHANGED <<cacheVars, promptVars, sessionVars>>
    /\ UNCHANGED <<cmd, now, disk, context, i, members, workloads, table, summary>>

----------------------------------------------------------------------------
(* KenSession::analyze_workload_direct (src/src/interactive.rs) *)

\* "let members = gitlab.get_project_members().await?"
WL_GetMembers ==
    /\ pc = "wl_members"
    /\ \E resp \in Responses(ReportMemberBodies) :
         LET r == get_project_members(resp)
         IN  /\ fetched' = [fetched EXCEPT !.members = Some(Seen(resp))]
             /\ IF r.ok
                THEN members' = r.val /\ i' = 1 /\ pc' = "wl_loop" /\ ret' = ret
                ELSE members' = members /\ i' = i /\ pc' = "done" /\ ret' = Some(Err)
    /\ UNCHANGED <<cacheVars, promptVars, sessionVars>>
    /\ UNCHANGED <<cmd, now, disk, context, workload_data, workloads, table, summary>>

\* one iteration of "for member in &members"
WL_Member ==
    /\ pc = "wl_loop"
    /\ i <= Len(members)
    /\ \E ri \in Responses(ReportIssueBodies(members[i].username)),
          rm \in Responses(ReportMRBodies) :
         LET issues == unwrap_or_default(get_issues_by_assignee(ri))
             mrs == unwrap_or_default(get_mrs_by_assignee(rm))
         IN  /\ workloads' = IF is_active(load_score_of(issues, mrs))
                             THEN Append(workloads, Row(i, issues, mrs))
                             ELSE workloads
             /\ fetched' = [fetched EXCEPT
                    !.users = Append(@, [issues |-> Seen(ri), mrs |-> Seen(rm)])]
    /\ i' = i + 1
    /\ UNCHANGED <<cacheVars, promptVars, sessionVars>>
    /\ UNCHANGED <<cmd, pc, now, disk, context, workload_data, members, table, summary, ret>>

\* after the loop: the sort and the printed table
WL_SortAndPrint ==
    /\ pc = "wl_loop"
    /\ i > Len(members)
    /\ workloads' = sort_by_load_score(workloads)
    /\ table' = MapSeq(TableRow, workloads')
    /\ pc' = "wl_issues"
    /\ UNCHANGED <<cacheVars, promptVars, sessionVars>>
    /\ UNCHANGED <<cmd, now, disk, context, workload_data, i, members, summary, ret, fetched>>

\* "let all_issues = gitlab.get_all_open_issues().await?" and the summary
WL_Summary ==
    /\ pc = "wl_issues"
    /\ \E resp \in Responses(OpenIssueBodies) :
         LET r == get_all_open_issues(resp)
         IN  /\ fetched' = [fetched EXCEPT !.open_issues = Some(Seen(resp))]
             /\ IF r.ok
                THEN /\ summary' = Some([high |-> high_count(workloads),
                                         medium |-> medium_count(workloads),
                                         low |-> low_count(workloads),
                                         active |-> Len(workloads),
                                         unassigned |-> Len(unassigned_of(r.val))])
                     /\ ret' = Some(Ok(<<>>))
                ELSE summary' = summary /\ ret' = Some(Err)
    /\ pc' = "done"
    /\ UNCHANGED <<cacheVars, promptVars, sessionVars>>
    /\ UNCHANGED <<cmd, now, disk, context, workload_data, i, members, workloads, table>>

----------------------------------------------------------------------------
(* Workload specification: fetch_workload_data over any member list, and   *)
(* the /workload report.                                                   *)

InitWorkload ==
    /\ cmd \in {"fetch_workload_data", "workload"}
    /\ now = 0
    /\ disk = None
    /\ IF cmd = "fetch_workload_data"
       THEN /\ pc = "fw_loop"
            /\ i = 1
            /\ \E users \in UserLists :
                 context = [ProjectContext_new(ProjectId) EXCEPT !.users = users]
       ELSE /\ pc = "wl_members"
            /\ i = 0
            /\ context = ProjectContext_new(ProjectId)
    /\ workload_data = WorkloadData_default
    /\ members = <<>>
    /\ workloads = <<>>
    /\ table = <<>>
    /\ summary = None
    /\ ret = None
    /\ fetched = NothingFetched
    /\ NoCacheCall
    /\ NoPrompt
    /\ NoSession

Next ==
    \/ FW_User
    \/ FW_Unassigned
    \/ WL_GetMembers
    \/ WL_Member
    \/ WL_SortAndPrint
    \/ WL_Summary

Spec == InitWorkload /\ [][Next]_vars

----------------------------------------------------------------------------
(* Properties of the workload aggregation *)

\* what one exchange of the history contributed: its number of results, a
\* failed exchange contributing none
Returned(seen) == IF seen.ok THEN Len(seen.body) ELSE 0

\* the score the history gives the k-th processed member
ScoreOf(k) == Returned(fetched.users[k].issues) + 2 * Returned(fetched.users[k].mrs)

Processed == 1..Len(fetched.users)

FWReturned == cmd = "fetch_workload_data" /\ pc = "done"

\* the list entries of username u that were processed and had work
EntriesWithWork(u) ==
    {k \in Processed : context.users[k].username = u /\ ScoreOf(k) > 0}

Max(S) == CHOOSE x \in S : \A y \in S : y <= x

IssueCounts == [u \in DOMAIN workload_data.user_assignments |->
                    workload_data.user_assignments[u].issue_count]

\* C2: the WorkloadData that fetch_workload_data returns has total_open_issues
\* equal to the sum of issue_count over the entries of user_assignments plus
\* the length of unassigned_issues, whatever the member list and whatever
\* each exchange answered.
C2_TotalOpenIssues ==
    FWReturned =>
        /\ Unwrap(ret).ok
        /\ Unwrap(ret).val = workload_data
        /\ workload_data.total_open_issues =
               SumOver(IssueCounts, DOMAIN IssueCounts)
                   + Len(workload_data.unassigned_issues)

C2_Witness ==
    /\ FWReturned
    /\ Cardinality(DOMAIN workload_data.user_assignments) = 2
    /\ Len(workload_data.unassigned_issues) = 2
    /\ workload_data.total_open_issues = 6
    /\ \E k \in Processed : ~fetched.users[k].mrs.ok

\* C3: a member whose score is 0 (no open issue and no open MR, failed
\* fetches counting as none) is never a key of user_assignments and never a
\* row of the /workload table: every key belongs to a processed member with
\* work and holds a positive score, and every row is of a member with work.
C3_NoZeroScoreMember ==
    /\ cmd = "fetch_workload_data" =>
         \A u \in DOMAIN workload_data.user_assignments :
            /\ workload_data.user_assignments[u].total_score > 0
            /\ EntriesWithWork(u) # {}
    /\ cmd = "workload" =>
         /\ \A r \in 1..Len(workloads) :
               workloads[r].load_score > 0 /\ ScoreOf(workloads[r].member) > 0
         /\ \A r \in 1..Len(table) :
               table[r].load_score > 0 /\ ScoreOf(table[r].member) > 0

C3_Witness ==
    /\ FWReturned
    /\ Len(context.users) = 2
    /\ context.users[1].username # context.users[2].username
    /\ ~fetched.users[1].issues.ok /\ ~fetched.users[1].mrs.ok
    /\ DOMAIN workload_data.user_assignments = {context.users[2].username}

\* C4: every stored UserWorkload and every row of the /workload table has
\* total_score = issue_count + 2 * mr_count, the two counts being the numbers
\* of issues and MRs that the member's own fetches returned (and the lengths
\* of the stored open_issues and open_mrs).
C4_ScoreFormula ==
    /\ cmd = "fetch_workload_data" =>
         \A u \in DOMAIN workload_data.user_assignments :
            LET w == workload_data.user_assignments[u]
                k == Max(EntriesWithWork(u))
            IN  /\ EntriesWithWork(u) # {}
                /\ w.issue_count = Returned(fetched.users[k].issues)
                /\ w.mr_count = Returned(fetched.users[k].mrs)
                /\ w.issue_count = Len(w.open_issues)
                /\ w.mr_count = Len(w.open_mrs)
                /\ w.total_score = w.issue_count + 2 * w.mr_count
    /\ cmd = "workload" =>
         \A r \in 1..Len(table) :
            /\ table[r].issues = Returned(fetched.users[table[r].member].issues)
            /\ table[r].mrs = Returned(fetched.users[table[r].member].mrs)
            /\ table[r].load_score = table[r].issues + 2 * table[r].mrs

C4_Witness ==
    /\ cmd = "workload"
    /\ \E r \in 1..Len(table) :
         table[r].issues = 1 /\ table[r].mrs = 3 /\ table[r].load_score = 7

\* C5: each row of the /workload table is classified High when its score is
\* greater than 8, Medium when it is 4 to 8, Low otherwise, and the three
\* bucket counts of the summary count the rows of each class, so that they
\* add up to the reported number of active members.
C5_Classification ==
    /\ \A r \in 1..Len(table) :
         /\ table[r].status = "High" <=> table[r].load_score > 8
         /\ table[r].status = "Medium" <=>
                (table[r].load_score >= 4 /\ table[r].load_score <= 8)
         /\ table[r].status = "Low" <=> table[r].load_score < 4
    /\ IsSome(summary) =>
         LET sm == Unwrap(summary)
             rows(status) == {r \in 1..Len(table) : table[r].status = status}
         IN  /\ sm.high = Cardinality(rows("High"))
             /\ sm.medium = Cardinality(rows("Medium"))
             /\ sm.low = Cardinality(rows("Low"))
             /\ sm.active = Len(table)
             /\ sm.high + sm.medium + sm.low = sm.active

C5_Witness ==
    /\ IsSome(summary)
    /\ Unwrap(summary).high = 1
    /\ Unwrap(summary).medium = 1
    /\ \E r \in 1..Len(table) : table[r].load_score = 9
    /\ \E r \in 1..Len(table) : table[r].load_score = 8

\* C6: the rows of the /workload table are in non-increasing order of score,
\* rows of equal score keep the order of the member list, and they are the
\* rows of exactly the members with work.
C6_SortedStable ==
    pc \in {"wl_issues", "done"} /\ cmd = "workload" /\ IsSome(fetched.members)
        /\ Unwrap(fetched.members).ok =>
        /\ \A r1, r2 \in 1..Len(table) :
             r1 < r2 =>
                 \/ table[r1].load_score > table[r2].load_score
                 \/ /\ table[r1].load_score = table[r2].load_score
                    /\ table[r1].member < table[r2].member
        /\ {table[r].member : r \in 1..Len(table)} = {k \in Processed : ScoreOf(k) > 0}

C6_Witness ==
    /\ cmd = "workload"
    /\ Len(table) = 2
    /\ \/ table[1].load_score = table[2].load_score
       \/ table[1].member = 2

\* what the claim counts as an issue without assignee: `assignee` absent or
\* null, and `assignees` absent or an empty array
LacksAssignee(issue) ==
    /\ issue.assignee.t \in {"absent", "null"}
    /\ issue.assignees.t = "absent"
         \/ (issue.assignees.t = "array" /\ issue.assignees.items = <<>>)

\* C7: the unassigned count of the /workload summary is the number of issues
\* of the project-wide fetch that lack any assignee.
C7_UnassignedCount ==
    IsSome(summary) =>
        Unwrap(summary).unassigned =
            Len(FilterSeq(LacksAssignee, Unwrap(fetched.open_issues).body))

\* C8: in both aggregations a failed issue or MR fetch of a member counts as
\* zero results for that fetch only and the loop goes on: once the loop is
\* over every member of the list was processed, and what is kept of each
\* member with work are the counts of its own fetches, a failed one being 0.
C8_SoftFail ==
    /\ (cmd = "fetch_workload_data" /\ pc = "done") =>
         /\ Len(fetched.users) = Len(context.users)
         /\ Unwrap(ret).ok
         /\ \A k \in Processed :
              (ScoreOf(k) > 0 /\ k = Max(EntriesWithWork(context.users[k].username))) =>
                 LET u == context.users[k].username
                 IN  /\ u \in DOMAIN workload_data.user_assignments
                     /\ workload_data.user_assignments[u].issue_count =
                            Returned(fetched.users[k].issues)
                     /\ workload_data.user_assignments[u].mr_count =
                            Returned(fetched.users[k].mrs)
    /\ (cmd = "workload" /\ pc \in {"wl_issues", "done"} /\ Unwrap(fetched.members).ok) =>
         /\ Len(fetched.users) = Len(members)
         /\ \A k \in Processed :
              ScoreOf(k) > 0 =>
                 \E r \in 1..Len(table) :
                    /\ table[r].member = k
                    /\ table[r].issues = Returned(fetched.users[k].issues)
                    /\ table[r].mrs = Returned(fetched.users[k].mrs)

C8_Witness ==
    /\ cmd = "workload" /\ pc = "done"
    /\ Len(table) = 2
    /\ ~fetched.users[1].issues.ok
    /\ fetched.users[1].mrs.ok
    /\ \E r \in 1..2 : table[r].member = 1 /\ table[r].mrs = 2 /\ table[r].issues = 0
    /\ \E r \in 1..2 : table[r].member = 2 /\ table[r].issues = 1

----------------------------------------------------------------------------
(* The cache file (src/src/context.rs: load, save) *)

\* A JSON document is [valid, json]: valid says whether the text is JSON
\* at all, json is the object it denotes, a function from keys to values.
\* An Option is written as null or as its value.
ser_option(o) == IF IsNone(o) THEN [t |-> "null"] ELSE [t |-> "value", v |-> Unwrap(o)]
\* serde reads a missing key and null alike as None
de_option(j, key) ==
    IF key \in DOMAIN j /\ j[key].t = "value" THEN Some(j[key].v) ELSE None

ser_label(l) == [name |-> l.name, usage_count |-> ser_option(l.usage_count)]
de_label(j) == [name |-> j.name, usage_count |-> de_option(j, "usage_count")]
ser_user(u) == [username |-> u.username, role |-> ser_option(u.role)]
de_user(j) == [username |-> j.username, role |-> de_option(j, "role")]
ser_issue(h) == [id |-> h.id, assignee |-> ser_option(h.assignee)]
de_issue(j) == [id |-> j.id, assignee |-> de_option(j, "assignee")]

ser_user_workload(w) == [w EXCEPT !.open_issues = MapSeq(ser_issue, w.open_issues)]
de_user_workload(j) == [j EXCEPT !.open_issues = MapSeq(de_issue, j.open_issues)]

ser_workload_data(wd) ==
    [user_assignments |->
         [u \in DOMAIN wd.user_assignments |-> ser_user_workload(wd.user_assignments[u])],
     unassigned_issues |-> MapSeq(ser_issue, wd.unassigned_issues),
     total_open_issues |-> wd.total_open_issues]
de_workload_data(j) ==
    [user_assignments |->
         [u \in DOMAIN j.user_assignments |-> de_user_workload(j.user_assignments[u])],
     unassigned_issues |-> MapSeq(de_issue, j.unassigned_issues),
     total_open_issues |-> j.total_open_issues]

\* the serializer as it would be if last_updated were skipped
ser_context_without_stamp(c) ==
    [project_id |-> c.project_id,
     labels |-> MapSeq(ser_label, c.labels),
     users |-> MapSeq(ser_user, c.users),
     milestones |-> c.milestones,
     teams |-> c.teams,
     hot_issues |-> MapSeq(ser_issue, c.hot_issues),
     issue_patterns |-> c.issue_patterns,
     workload_data |-> ser_workload_data(c.workload_data)]

\* #[derive(Serialize)] for ProjectContext
ser_context(c) ==
    [project_id |-> c.project_id,
     labels |-> MapSeq(ser_label, c.labels),
     users |-> MapSeq(ser_user, c.users),
     milestones |-> c.milestones,
     teams |-> c.teams,
     hot_issues |-> MapSeq(ser_issue, c.hot_issues),
     issue_patterns |-> c.issue_patterns,
     workload_data |-> ser_workload_data(c.workload_data),
     last_updated |-> ser_option(c.last_updated)]

\* the keys #[derive(Deserialize)] requires: every field that is not an Option
RequiredKeys == {"project_id", "labels", "users", "milestones", "teams", "hot_issues",
                 "issue_patterns", "workload_data"}

\* #[derive(Deserialize)] for ProjectContext; keys it does not know are ignored
de_context(j) ==
    [project_id |-> j.project_id,
     labels |-> MapSeq(de_label, j.labels),
     users |-> MapSeq(de_user, j.users),
     milestones |-> j.milestones,
     teams |-> j.teams,
     hot_issues |-> MapSeq(de_issue, j.hot_issues),
     issue_patterns |-> j.issue_patterns,
     workload_data |-> de_workload_data(j.workload_data),
     last_updated |-> de_option(j, "last_updated")]

\* serde_json::to_string_pretty: the document of a context
to_string_pretty(c) == [valid |-> TRUE, json |-> ser_context(c)]
\* a file that is not the JSON of a context: truncated, or edited by hand
CorruptFile == [valid |-> FALSE, json |-> <<>>]
\* serde_json::from_str::<ProjectContext>
from_str(contents) ==
    IF contents.valid /\ RequiredKeys \subseteq DOMAIN contents.json
    THEN Ok(de_context(contents.json))
    ELSE Err

\* load as it would be without the test of path.exists()
load_or_not_found(file, project_id, io) ==
    IF io = "path_error" \/ IsNone(file) \/ io = "io_error" THEN Err
    ELSE from_str(Unwrap(file))

\* ProjectContext::load; io is what the file system does: "ok",
\* "path_error" (context_path fails) or "io_error" (the read fails)
load(file, project_id, io) ==
    IF io = "path_error" THEN Err
    ELSE IF IsNone(file) THEN Ok(ProjectContext_new(project_id))
    ELSE IF io = "io_error" THEN Err
    ELSE from_str(Unwrap(file))

\* ProjectContext::save: the result and the file afterwards; fs::write
\* either cannot create the file ("io_error") or fails after truncating it
\* ("write_error")
save(file, c, io) ==
    CASE io = "ok" -> [ok |-> TRUE, file |-> Some(to_string_pretty(c))]
      [] io = "write_error" -> [ok |-> FALSE, file |-> Some(CorruptFile)]
      [] OTHER -> [ok |-> FALSE, file |-> file]

----------------------------------------------------------------------------
(* src/src/tools/context.rs: the fetchers of the refresh_project_context tool *)

\* RefreshContextTool::fetch_labels
tool_fetch_labels(resp) ==
    IF resp.status = "ok"
    THEN LET mk(label) == ProjectLabel(label.name, Some(label.open_issues_count))
         IN  Ok(MapSeq(mk, resp.body))
    ELSE Err

\* RefreshContextTool::fetch_project_members
tool_fetch_project_members(resp) ==
    IF resp.status = "ok"
    THEN LET mk(member) ==
                 ProjectUser(member.username, Some(role_name(member.access_level, "Unknown")))
         IN  Ok(MapSeq(mk, resp.body))
    ELSE Err

\* RefreshContextTool::fetch_milestones
tool_fetch_milestones(resp) ==
    IF resp.status = "ok"
    THEN LET mk(milestone) == ProjectMilestone(milestone.title, milestone.state)
         IN  Ok(MapSeq(mk, resp.body))
    ELSE Err

----------------------------------------------------------------------------
(* What GitLab may answer to a refresh, and what the cache may hold *)

JMember(username, access_level) == [username |-> username, access_level |-> access_level]

LabelBodies == {<<[name |-> "bug", open_issues_count |-> 3]>>}
MilestoneBodies == {<<[title |-> "v2", state |-> "active"]>>}
CtxMemberBodies ==
    {<<>>, <<JMember("alice", 30)>>, <<JMember("alice", 30), JMember("bob", 60)>>}

\* a context cached by an earlier refresh; none of its values is in a body
\* above
OldContext(stamp) ==
    [project_id |-> ProjectId,
     labels |-> <<ProjectLabel("wontfix", None)>>,
     users |-> <<ProjectUser("zed", Some("Guest"))>>,
     milestones |-> <<ProjectMilestone("v1", "closed")>>,
     teams |-> EmptyMap,
     hot_issues |-> <<HotIssue(99, Some("zed"))>>,
     issue_patterns |-> IssuePatterns_default,
     workload_data |->
         [user_assignments |->
              Insert(EmptyMap, "zed",
                     [username |-> "zed",
                      open_issues |-> <<HotIssue(99, Some("zed"))>>,
                      open_mrs |-> <<>>,
                      issue_count |-> 1,
                      mr_count |-> 0,
                      total_score |-> 1]),
          unassigned_issues |-> <<HotIssue(98, None)>>,
          total_open_issues |-> 2],
     last_updated |-> Some(stamp)]

\* the clock at the start of a refresh, and the stamps of the cached context:
\* 30, 90 and 150 minutes old, or unparsable
RefreshTime == 200
OldStamps == {to_rfc3339(RefreshTime - 30), to_rfc3339(RefreshTime - 90),
              to_rfc3339(RefreshTime - 150), Garbage}

----------------------------------------------------------------------------
(* ProjectContext::fetch_from_gitlab and the /update-context command *)

\* "let mut context = Self::new(...)" and the label fetch
FF_Labels ==
    /\ pc = "ff_labels"
    /\ \E resp \in Responses(LabelBodies) :
         LET c == ProjectContext_new(ProjectId)
             r == fetch_labels(resp)
         IN  /\ context' = IF r.ok THEN [c EXCEPT !.labels = r.val] ELSE c
             /\ fetched' = [fetched EXCEPT !.labels = Some(Seen(resp))]
    /\ pc' = "ff_members"
    /\ UNCHANGED <<cacheVars, promptVars, sessionVars>>
    /\ UNCHANGED <<cmd, now, disk, workload_data, i, members, workloads, table, summary, ret>>

FF_Members ==
    /\ pc = "ff_members"
    /\ \E resp \in Responses(CtxMemberBodies) :
         LET r == fetch_project_members(resp)
         IN  /\ context' = IF r.ok THEN [context EXCEPT !.users = r.val] ELSE context
             /\ fetched' = [fetched EXCEPT !.members = Some(Seen(resp))]
    /\ pc' = "ff_milestones"
    /\ UNCHANGED <<cacheVars, promptVars, sessionVars>>
    /\ UNCHANGED <<cmd, now, disk, workload_data, i, members, workloads, table, summary, ret>>

FF_Milestones ==
    /\ pc = "ff_milestones"
    /\ \E resp \in Responses(MilestoneBodies) :
         LET r == fetch_milestones(resp)
         IN  /\ context' = IF r.ok THEN [context EXCEPT !.milestones = r.val] ELSE context
             /\ fetched' = [fetched EXCEPT !.milestones = Some(Seen(resp))]
    /\ pc' = "ff_issues"
    /\ UNCHANGED <<cacheVars, promptVars, sessionVars>>
    /\ UNCHANGED <<cmd, now, disk, workload_data, i, members, workloads, table, summary, ret>>

\* the open issues, then the call of fetch_workload_data
FF_OpenIssues ==
    /\ pc = "ff_issues"
    /\ \E resp \in Responses(OpenIssueBodies) :
         LET r == fetch_all_open_issues(resp)
         IN  /\ context' = IF r.ok THEN [context EXCEPT !.hot_issues = r.val] ELSE context
             /\ fetched' = [fetched EXCEPT !.open_issues = Some(Seen(resp))]
    /\ workload_data' = WorkloadData_default
    /\ i' = 1
    /\ pc' = "fw_loop"
    /\ UNCHANGED <<cacheVars, promptVars, sessionVars>>
    /\ UNCHANGED <<cmd, now, disk, members, workloads, table, summary, ret>>

\* fetch_from_gitlab as it would be if it cached its result itself
FF_Return_saving ==
    /\ pc = "ff_stamp"
    /\ context' = update_timestamp([context EXCEPT !.workload_data = workload_data], now)
    /\ ret' = Some(Ok(context'))
    /\ disk' = save(disk, context', "ok").file
    /\ pc' = "uc_save"
    /\ UNCHANGED <<cacheVars, promptVars, sessionVars>>
    /\ UNCHANGED <<cmd, now, workload_data, i, members, workloads, table, summary, fetched>>

\* "context.workload_data = ...?; context.update_timestamp(); Ok(context)"
FF_Return ==
    /\ pc = "ff_stamp"
    /\ context' = update_timestamp([context EXCEPT !.workload_data = workload_data], now)
    /\ ret' = Some(Ok(context'))
    /\ pc' = "uc_save"
    /\ UNCHANGED <<cacheVars, promptVars, sessionVars>>
    /\ UNCHANGED <<cmd, now, disk, workload_data, i, members, workloads, table, summary,
                   fetched>>

\* /update-context, arm Ok(context): "if let Err(e) = context.save()"
UC_Save ==
    /\ pc = "uc_save"
    /\ \E io \in {"ok", "path_error", "io_error", "write_error"} :
         disk' = save(disk, context, io).file
    /\ pc' = "done"
    /\ UNCHANGED <<cacheVars, promptVars, sessionVars>>
    /\ UNCHANGED <<cmd, now, context, workload_data, i, members, workloads, table, summary,
                   ret, fetched>>

----------------------------------------------------------------------------
(* RefreshContextTool::call (src/src/tools/context.rs) *)

ToolOutput(message, c) ==
    [message |-> message, labels_count |-> Len(c.labels), users_count |-> Len(c.users),
     milestones_count |-> Len(c.milestones), last_updated |-> c.last_updated]

\* the load and the freshness check
RT_Load ==
    /\ pc = "rt_load"
    /\ \E io \in {"ok", "path_error", "io_error"}, force_refresh \in {None, Some(FALSE), Some(TRUE)} :
         LET r == load(disk, ProjectId, io)
             force == IF IsSome(force_refresh) THEN Unwrap(force_refresh) ELSE FALSE
         IN  IF ~r.ok
             THEN /\ ret' = Some(Err)
                  /\ pc' = "done"
                  /\ UNCHANGED <<context, fetched>>
             ELSE /\ context' = r.val
                  /\ fetched' = [fetched EXCEPT !.cache = Some(r.val), !.force = Some(force)]
                  /\ IF ~force /\ ~is_stale(r.val.last_updated, now)
                     THEN /\ ret' = Some(Ok(ToolOutput("Context is fresh, no refresh needed",
                                                       r.val)))
                          /\ pc' = "done"
                     ELSE ret' = ret /\ pc' = "rt_fetch"
    /\ UNCHANGED <<cacheVars, promptVars, sessionVars>>
    /\ UNCHANGED <<cmd, now, disk, workload_data, i, members, workloads, table, summary>>

\* the three joined fetches, the updates and the stamp
RT_Fetch ==
    /\ pc = "rt_fetch"
    /\ \E rl \in Responses(LabelBodies), ru \in Responses(CtxMemberBodies),
          rm \in Responses(MilestoneBodies) :
         LET labels == tool_fetch_labels(rl)
             users == tool_fetch_project_members(ru)
             milestones == tool_fetch_milestones(rm)
             c1 == IF labels.ok THEN [context EXCEPT !.labels = labels.val] ELSE context
             c2 == IF users.ok THEN [c1 EXCEPT !.users = users.val] ELSE c1
             c3 == IF milestones.ok THEN [c2 EXCEPT !.milestones = milestones.val] ELSE c2
         IN  /\ context' = update_timestamp(c3, now)
             /\ fetched' = [fetched EXCEPT !.labels = Some(Seen(rl)),
                                           !.members = Some(Seen(ru)),
                                           !.milestones = Some(Seen(rm))]
    /\ pc' = "rt_save"
    /\ UNCHANGED <<cacheVars, promptVars, sessionVars>>
    /\ UNCHANGED <<cmd, now, disk, workload_data, i, members, workloads, table, summary, ret>>

\* "context.save()?" and the answer
RT_Save ==
    /\ pc = "rt_save"
    /\ \E io \in {"ok", "path_error", "io_error", "write_error"} :
         LET r == save(disk, context, io)
         IN  /\ disk' = r.file
             /\ ret' = IF r.ok
                       THEN Some(Ok(ToolOutput("Project context refreshed successfully",
                                               context)))
                       ELSE Some(Err)
    /\ pc' = "done"
    /\ UNCHANGED <<cacheVars, promptVars, sessionVars>>
    /\ UNCHANGED <<cmd, now, context, workload_data, i, members, workloads, table, summary,
                   fetched>>

----------------------------------------------------------------------------
(* Refresh specification: one /update-context command or one call of the   *)
(* refresh_project_context tool, over a cache file that is absent, corrupt *)
(* or left by an earlier refresh.                                          *)

InitRefresh ==
    /\ cmd \in {"update_context", "refresh_tool"}
    /\ pc = IF cmd = "update_context" THEN "ff_labels" ELSE "rt_load"
    /\ now = RefreshTime
    /\ disk \in IF cmd = "update_context"
                 THEN {None, Some(to_string_pretty(OldContext(to_rfc3339(RefreshTime - 150))))}
                 ELSE {None, Some(CorruptFile)}
                          \cup {Some(to_string_pretty(OldContext(stamp))) : stamp \in OldStamps}
    /\ context = ProjectContext_new(ProjectId)
    /\ workload_data = WorkloadData_default
    /\ i = 0
    /\ members = <<>>
    /\ workloads = <<>>
    /\ table = <<>>
    /\ summary = None
    /\ ret = None
    /\ fetched = NothingFetched
    /\ NoCacheCall
    /\ NoPrompt
    /\ NoSession

NextRefresh ==
    \/ FF_Labels
    \/ FF_Members
    \/ FF_Milestones
    \/ FF_OpenIssues
    \/ FW_User
    \/ FW_Unassigned
    \/ FF_Return
    \/ UC_Save
    \/ RT_Load
    \/ RT_Fetch
    \/ RT_Save

SpecRefresh == InitRefresh /\ [][NextRefresh]_vars

----------------------------------------------------------------------------
(* Properties of the refresh *)

Range(seq) == {seq[k] : k \in 1..Len(seq)}

\* the body of an exchange of the history, none for a failed one
BodyOf(seen) == IF IsSome(seen) /\ Unwrap(seen).ok THEN Unwrap(seen).body ELSE <<>>

Names(seq) == [k \in 1..Len(seq) |-> seq[k].name]
Usernames(seq) == [k \in 1..Len(seq) |-> seq[k].username]
Titles(seq) == [k \in 1..Len(seq) |-> seq[k].title]
Ids(seq) == [k \in 1..Len(seq) |-> seq[k].id]
Iids(seq) == [k \in 1..Len(seq) |-> seq[k].iid]

\* fetch_from_gitlab has returned to /update-context
FFReturned == cmd = "update_context" /\ pc \in {"uc_save", "done"}

\* every field of c is what the exchange of that field answered, and empty
\* when that exchange failed
FieldsFromFetch(c) ==
    /\ Names(c.labels) = Names(BodyOf(fetched.labels))
    /\ Usernames(c.users) = Usernames(BodyOf(fetched.members))
    /\ Titles(c.milestones) = Titles(BodyOf(fetched.milestones))
    /\ Ids(c.hot_issues) = Iids(BodyOf(fetched.open_issues))
    /\ Ids(c.workload_data.unassigned_issues) =
           Iids(FilterSeq(LacksAssignee, BodyOf(fetched.unassigned)))
    /\ Len(fetched.users) = Len(c.users)
    /\ DOMAIN c.workload_data.user_assignments =
           {c.users[k].username : k \in {j \in Processed : ScoreOf(j) > 0}}
    /\ \A k \in Processed :
          ScoreOf(k) > 0 =>
              LET w == c.workload_data.user_assignments[c.users[k].username]
              IN  /\ Len(w.open_issues) = Returned(fetched.users[k].issues)
                  /\ Len(w.open_mrs) = Returned(fetched.users[k].mrs)

\* C9: fetch_from_gitlab returns a context, never an error, whatever its
\* exchanges answer: the field of a failed exchange is empty, the field of
\* every other exchange holds what that exchange answered.
C9_RefreshNeverFails ==
    FFReturned =>
        /\ IsSome(ret)
        /\ Unwrap(ret).ok
        /\ Unwrap(ret).val = context
        /\ FieldsFromFetch(context)

C9_Witness ==
    /\ FFReturned
    /\ ~Unwrap(fetched.labels).ok
    /\ Unwrap(fetched.milestones).ok
    /\ ~Unwrap(fetched.open_issues).ok
    /\ Len(context.users) = 2
    /\ ~fetched.users[1].issues.ok
    /\ fetched.users[1].mrs.ok
    /\ DOMAIN context.workload_data.user_assignments = {"alice", "bob"}
    /\ ~Unwrap(fetched.unassigned).ok
    /\ context.labels = <<>>
    /\ context.milestones # <<>>

\* the values of a context cached by an earlier refresh
Old == OldContext(Garbage)

\* no value of an earlier refresh is in c
NoCachedValue(c) ==
    /\ Range(c.labels) \cap Range(Old.labels) = {}
    /\ Range(c.users) \cap Range(Old.users) = {}
    /\ Range(c.milestones) \cap Range(Old.milestones) = {}
    /\ Range(c.hot_issues) \cap Range(Old.hot_issues) = {}
    /\ Range(c.workload_data.unassigned_issues)
           \cap Range(Old.workload_data.unassigned_issues) = {}
    /\ DOMAIN c.workload_data.user_assignments
           \cap DOMAIN Old.workload_data.user_assignments = {}

\* the tool has fetched and stamped
ToolRefreshed == cmd = "refresh_tool" /\ pc \in {"rt_save", "done"} /\ IsSome(fetched.labels)

Stamped(c) == c.last_updated = Some(to_rfc3339(now))

\* C10 as claimed: after a refresh by /update-context or by the
\* refresh_project_context tool the context holds only data of the current
\* fetch, no cached value survives, and last_updated is the current time.
C10_FullRefetch ==
    (FFReturned \/ ToolRefreshed) => (NoCachedValue(context) /\ Stamped(context))

\* C10, amended: after fetch_from_gitlab (/update-context) every field holds
\* only data of the current fetch and last_updated is the current time; the
\* refresh_project_context tool, when it refreshes, stamps the current time
\* and replaces labels, users and milestones each only if its fetch
\* succeeded, keeping every other value of the cached context.
C10_RefetchOrMerge ==
    /\ FFReturned =>
         /\ NoCachedValue(context)
         /\ FieldsFromFetch(context)
         /\ Stamped(context)
    /\ ToolRefreshed =>
         LET cached == Unwrap(fetched.cache)
         IN  /\ Stamped(context)
             /\ Names(context.labels) =
                    IF Unwrap(fetched.labels).ok THEN Names(BodyOf(fetched.labels))
                    ELSE Names(cached.labels)
             /\ Usernames(context.users) =
                    IF Unwrap(fetched.members).ok THEN Usernames(BodyOf(fetched.members))
                    ELSE Usernames(cached.users)
             /\ Titles(context.milestones) =
                    IF Unwrap(fetched.milestones).ok THEN Titles(BodyOf(fetched.milestones))
                    ELSE Titles(cached.milestones)
             /\ context.hot_issues = cached.hot_issues
             /\ context.workload_data = cached.workload_data
             /\ context.teams = cached.teams
             /\ context.issue_patterns = cached.issue_patterns

C10_Witness ==
    /\ cmd = "refresh_tool" /\ pc = "done"
    /\ ToolRefreshed
    /\ Unwrap(ret).ok
    /\ Unwrap(fetched.labels).ok
    /\ ~Unwrap(fetched.members).ok
    /\ Names(context.labels) = <<"bug">>
    /\ context.users = Old.users
    /\ context.hot_issues = Old.hot_issues
    /\ disk = Some(to_string_pretty(context))

----------------------------------------------------------------------------
(* Who writes the cache file *)

\* a step of ProjectContext::save made by a caller of the refresh
SaveStep == pc \in {"uc_save", "rt_save"}

\* C11 as claimed: the refresh stamps last_updated and leaves the cache file
\* alone; the document on disk changes only in a save() of the caller, and
\* then to the document of the refreshed context: a save that fails leaves
\* the previous document as it was.
C11_OnlySuccessfulSaveWrites ==
    [][/\ pc = "ff_stamp" => Stamped(context')
       /\ disk' # disk => (SaveStep /\ disk' = Some(to_string_pretty(context)))]_vars

\* C11, amended: the refresh stamps last_updated and never writes the cache
\* file; the document on disk changes only in a save() of the caller. A save
\* that is skipped, or fails before the file is opened, leaves the previous
\* document; a save that fails while writing leaves a file that is not the
\* document of a context.
C11_OnlySaveWrites ==
    [][/\ pc = "ff_stamp" => Stamped(context')
       /\ disk' # disk =>
            /\ SaveStep
            /\ disk' \in {Some(to_string_pretty(context)), Some(CorruptFile)}
       /\ (pc = "rt_save" /\ Unwrap(ret').ok) => disk' = Some(to_string_pretty(context))]_vars

\* a refresh has returned a stamped context and its save failed: the document
\* of the earlier refresh is still on disk
C11_Witness ==
    /\ cmd = "update_context" /\ pc = "done"
    /\ Stamped(context)
    /\ disk = Some(to_string_pretty(OldContext(to_rfc3339(RefreshTime - 150))))
    /\ disk # Some(to_string_pretty(context))

----------------------------------------------------------------------------
(* The cache directory (src/src/context.rs: context_path, load, save).     *)
(* A project identifier and a file name are sequences of characters.       *)

\* the characters context_path replaces
UnsafeChars == {"/", "\\", ":", "*", "?", "\"", "<", ">", "|"}

\* "project_id.replace([...], "_")"
safe_project_id(project_id) ==
    [k \in 1..Len(project_id) |-> IF project_id[k] \in UnsafeChars THEN "_" ELSE project_id[k]]

\* ProjectContext::context_path: the file name under ~/.ken/contexts
context_path(project_id) == Append(safe_project_id(project_id), ".json")

\* the project identifiers of the calls: paths of a group and a repository
\* with a replaced character or with the replacement itself, and a bare name
CacheProjectIds ==
    {<<"g", "/", "r">>, <<"g", ":", "r">>, <<"g", "_", "r">>, <<"g">>}

FileNames == {context_path(p) : p \in CacheProjectIds}

\* the contexts a caller saves: a new one, and one a refresh has filled
CacheContexts(project_id) ==
    {ProjectContext_new(project_id),
     [OldContext(to_rfc3339(RefreshTime)) EXCEPT !.project_id = project_id]}

\* documents ken did not write itself: one of a version without the
\* last_updated key and with a key ken does not know, one without teams
LegacyDoc(project_id) ==
    [valid |-> TRUE,
     json |-> [project_id |-> project_id, labels |-> <<ser_label(ProjectLabel("legacy", None))>>,
               users |-> <<>>, milestones |-> <<>>, teams |-> EmptyMap, hot_issues |-> <<>>,
               issue_patterns |-> IssuePatterns_default,
               workload_data |-> ser_workload_data(WorkloadData_default),
               version |-> 1]]
PartialDoc(project_id) ==
    [valid |-> TRUE, json |-> [project_id |-> project_id, labels |-> <<>>, users |-> <<>>]]

\* ProjectContext::load(project_id)
Load ==
    \E project_id \in CacheProjectIds, io \in {"ok", "path_error", "io_error"} :
       LET file == contexts_dir[context_path(project_id)]
       IN  /\ call' = [op |-> "load", project_id |-> project_id, io |-> io,
                       present |-> IsSome(file),
                       result |-> load(file, project_id, io)]
           /\ UNCHANGED contexts_dir

\* the write of context.save() into the directory
SaveInto(dir, c, io) ==
    LET path == context_path(c.project_id)
        r == save(dir[path], c, io)
    IN  [ok |-> r.ok, dir |-> [dir EXCEPT ![path] = r.file]]

\* context.save() of a context the caller has built
Save ==
    \E project_id \in CacheProjectIds, io \in {"ok", "path_error", "io_error", "write_error"} :
       \E c \in CacheContexts(project_id) :
          LET r == SaveInto(contexts_dir, c, io)
          IN  /\ contexts_dir' = r.dir
              /\ call' = [op |-> "save", project_id |-> project_id, io |-> io,
                          context |-> c, result |-> r.ok]

\* context.save() of the context the last load returned, as it is
SaveLoaded ==
    /\ call.op = "load"
    /\ call.result.ok
    /\ \E io \in {"ok", "path_error", "io_error", "write_error"} :
          LET c == call.result.val
              r == SaveInto(contexts_dir, c, io)
          IN  /\ contexts_dir' = r.dir
              /\ call' = [op |-> "save_loaded", project_id |-> call.project_id, io |-> io,
                          context |-> c, result |-> r.ok]

InitCache ==
    /\ cmd = "cache"
    /\ pc = "idle"
    /\ now = RefreshTime
    /\ disk = None
    /\ context = ProjectContext_new(ProjectId)
    /\ workload_data = WorkloadData_default
    /\ i = 0
    /\ members = <<>>
    /\ workloads = <<>>
    /\ table = <<>>
    /\ summary = None
    /\ ret = None
    /\ fetched = NothingFetched
    /\ call = [op |-> "none"]
    /\ NoPrompt
    /\ NoSession
    /\ \E g \in {None, Some(CorruptFile), Some(LegacyDoc(<<"g">>)), Some(PartialDoc(<<"g">>))} :
          contexts_dir = [f \in FileNames |-> IF f = context_path(<<"g">>) THEN g ELSE None]

workVars == <<cmd, pc, now, disk, context, workload_data, i, members, workloads, table,
              summary, ret, fetched>>

NextCache ==
    \/ Load /\ UNCHANGED <<workVars, promptVars, sessionVars>>
    \/ Save /\ UNCHANGED <<workVars, promptVars, sessionVars>>
    \/ SaveLoaded /\ UNCHANGED <<workVars, promptVars, sessionVars>>

SpecCache == InitCache /\ [][NextCache]_vars

----------------------------------------------------------------------------
(* Properties of load and save *)

\* the file a call of load(project_id) looks at
FileOf(project_id) == contexts_dir[context_path(project_id)]

\* C12 as claimed: load(project_id) with no cache file present returns,
\* without error, an empty context for project_id and creates no file; it
\* returns an error only when the file is present and cannot be read or is
\* not the JSON of a context.
C12_LoadErrsOnlyOnPresentFile ==
    [][call'.op = "load" =>
         /\ contexts_dir' = contexts_dir
         /\ ~call'.present => call'.result = Ok(ProjectContext_new(call'.project_id))
         /\ ~call'.result.ok => call'.present]_vars

\* C12, amended: when the path of the cache file can be determined, load
\* with no cache file present returns an empty context for project_id; load
\* never creates or changes a cache file; it returns an error only when the
\* path cannot be determined (no home directory, or the cache directory
\* cannot be created), or the file is present and cannot be read or is not
\* the JSON of a context.
C12_LoadOfAbsentFile ==
    [][call'.op = "load" =>
         LET file == FileOf(call'.project_id)
         IN  /\ contexts_dir' = contexts_dir
             /\ call'.present = IsSome(file)
             /\ (~call'.present /\ call'.io # "path_error") =>
                    /\ call'.result.ok
                    /\ call'.result.val.project_id = call'.project_id
                    /\ call'.result.val.labels = <<>>
                    /\ call'.result.val.users = <<>>
                    /\ call'.result.val.milestones = <<>>
                    /\ call'.result.val.hot_issues = <<>>
                    /\ DOMAIN call'.result.val.teams = {}
                    /\ DOMAIN call'.result.val.workload_data.user_assignments = {}
                    /\ call'.result.val.workload_data.unassigned_issues = <<>>
                    /\ IsNone(call'.result.val.last_updated)
             /\ ~call'.result.ok <=>
                    \/ call'.io = "path_error"
                    \/ /\ call'.present
                       /\ \/ call'.io = "io_error"
                          \/ file \in {Some(CorruptFile), Some(PartialDoc(<<"g">>))}]_vars

C12_Witness ==
    /\ call.op = "load"
    /\ call.project_id = <<"g", "/", "r">>
    /\ call.io = "ok"
    /\ ~call.present
    /\ call.result.ok
    /\ call.result.val.project_id = <<"g", "/", "r">>
    /\ IsNone(call.result.val.last_updated)
    /\ IsNone(FileOf(<<"g", "/", "r">>))
    /\ \E f \in FileNames : IsSome(contexts_dir[f])

\* a save has returned Ok
Saved == call.op \in {"save", "save_loaded"} /\ call.result

\* C13: round trip. After save(C) succeeded the file of C's project is the
\* document of C alone, whatever was stored before, and a load of it returns
\* a context equal to C in every field; in particular saving the context a
\* load has just returned leaves the stored field values as they were.
C13_RoundTrip ==
    Saved =>
        LET c == call.context
        IN  /\ FileOf(c.project_id) = Some(to_string_pretty(c))
            /\ load(FileOf(c.project_id), c.project_id, "ok") = Ok(c)
            /\ call.op = "save_loaded" =>
                   load(FileOf(call.project_id), call.project_id, "ok") = Ok(c)

C13_Witness ==
    /\ Saved
    /\ call.op = "save_loaded"
    /\ call.project_id = <<"g", "/", "r">>
    /\ call.context.labels # <<>>
    /\ IsSome(call.context.last_updated)
    /\ IsSome(call.context.hot_issues[1].assignee)
    /\ load(FileOf(call.project_id), call.project_id, "ok") = Ok(call.context)

\* the file name the specification gives a project identifier
ClaimedFileName(project_id) ==
    [k \in 1..Len(project_id) + 1 |->
        IF k > Len(project_id) THEN ".json"
        ELSE IF project_id[k] \in {"/", "\\", ":", "*", "?", "\"", "<", ">", "|"} THEN "_"
        ELSE project_id[k]]

\* the project a stored document belongs to
StoredProject(file) == Unwrap(file).json.project_id

\* C14: the cache file name is the project identifier with each of
\* / \ : * ? " < > | replaced by '_' and every other character kept, and no
\* two different identifiers share a file name: a load never returns the
\* context of another project than the one asked for, and a save never
\* overwrites the document of another project.
C14_OneFilePerProject ==
    [][call'.op \in {"load", "save"} =>
         LET project_id == call'.project_id
             file == FileOf(project_id)
         IN  /\ context_path(project_id) = ClaimedFileName(project_id)
             /\ (call'.op = "load" /\ call'.result.ok) =>
                    call'.result.val.project_id = project_id
             /\ (call'.op = "save" /\ IsSome(file) /\ Unwrap(file).valid) =>
                    StoredProject(file) = project_id]_vars

----------------------------------------------------------------------------
(* ProjectContext::to_prompt_context (src/src/context.rs).  The text is a  *)
(* sequence of lines [kind, x]; x holds what the line prints.              *)

\* the numbers of entries a section lists
TakeLabels == 20
TakeUsers == 15
TakeHotIssues == 10

\* the largest collections rendered
MaxRenderLabels == 21
MaxRenderUsers == 16
MaxRenderIssues == 11

Line(kind, x) == [kind |-> kind, x |-> x]
BlankLine == Line("blank", "")

\* Iterator::take as it would be without its limit
take_unbounded(s, n) == s

\* Iterator::take
take(s, n) == IF Len(s) <= n THEN s ELSE SubSeq(s, 1, n)

label_line(label) ==
    Line("label", <<label.name,
                    IF IsSome(label.usage_count) THEN <<"(", Unwrap(label.usage_count), ")">>
                    ELSE <<>>>>)
user_line(user) ==
    Line("user", <<user.username, IF IsSome(user.role) THEN Unwrap(user.role) ELSE "Member">>)
issue_line(issue) ==
    Line("issue", <<issue.id,
                    IF IsSome(issue.assignee) THEN Unwrap(issue.assignee) ELSE "Unassigned">>)

\* "if !self.labels.is_empty() { ... }" and the like: a header, the lines,
\* an empty line
section(present, header, lines) ==
    IF present THEN <<Line("header", header)>> \o lines \o <<BlankLine>> ELSE <<>>

\* the orders a HashMap may iterate its keys in
IterationOrders(map) ==
    {order \in [1..Cardinality(DOMAIN map) -> DOMAIN map] :
        {order[k] : k \in DOMAIN order} = DOMAIN map}

patterns_lines(p) ==
    <<Line("pattern", <<"Most used labels", p.most_used_labels>>),
      Line("pattern", <<"Active assignees", p.active_assignees>>)>>
    \o (IF p.priority_levels # <<>>
        THEN <<Line("pattern", <<"Priority levels", p.priority_levels>>)>> ELSE <<>>)

\* ProjectContext::to_prompt_context; team_order is the order in which
\* "for (team_name, members) in &self.teams" visits the map
to_prompt_context(c, team_order) ==
    <<Line("title", c.project_id), BlankLine>>
    \o section(c.labels # <<>>, "**Available Labels:**",
               MapSeq(label_line, take(c.labels, TakeLabels)))
    \o section(c.users # <<>>, "**Project Members:**",
               MapSeq(user_line, take(c.users, TakeUsers)))
    \o section(DOMAIN c.teams # {}, "**Known Teams:**",
               [k \in 1..Len(team_order) |->
                    Line("team", <<team_order[k], c.teams[team_order[k]]>>)])
    \o section(c.hot_issues # <<>>, "**Recent Activity:**",
               MapSeq(issue_line, take(c.hot_issues, TakeHotIssues)))
    \o section(c.issue_patterns.most_used_labels # <<>>, "**Common Patterns:**",
               patterns_lines(c.issue_patterns))
    \o (IF IsSome(c.last_updated)
        THEN <<Line("updated", Unwrap(c.last_updated))>> ELSE <<>>)

----------------------------------------------------------------------------
(* Prompt specification: to_prompt_context applied, once or twice, to the  *)
(* field values of a context.                                              *)

\* how often the same field values are rendered
MaxRenders == 2

LabelCounts == {0, 1, TakeLabels, MaxRenderLabels}
UserCounts == {0, 1, TakeUsers, MaxRenderUsers}
IssueCounts2 == {0, 1, TakeHotIssues, MaxRenderIssues}

\* team maps: the one every refresh leaves, and maps a cache file may hold
TeamMaps == {EmptyMap,
             [t \in {"backend"} |-> <<"alice", "bob">>],
             [t \in {"backend", "frontend"} |-> IF t = "backend" THEN <<"alice">> ELSE <<"bob">>]}

PatternValues ==
    {IssuePatterns_default,
     [IssuePatterns_default EXCEPT !.active_assignees = <<"alice">>],
     [IssuePatterns_default EXCEPT !.most_used_labels = <<"bug">>],
     [IssuePatterns_default EXCEPT !.most_used_labels = <<"bug">>,
                                   !.priority_levels = <<"high">>]}

RenderContext(nl, nu, nh, teams, patterns, last_updated) ==
    [ProjectContext_new(ProjectId) EXCEPT
        !.labels = [k \in 1..nl |-> ProjectLabel(k, IF k % 2 = 0 THEN Some(k) ELSE None)],
        !.users = [k \in 1..nu |-> ProjectUser(k, IF k % 2 = 0 THEN Some("Developer") ELSE None)],
        !.hot_issues = [k \in 1..nh |-> HotIssue(k, IF k % 2 = 0 THEN Some("alice") ELSE None)],
        !.teams = teams,
        !.issue_patterns = patterns,
        !.last_updated = last_updated]

\* one call of to_prompt_context on a context with these field values
ToPromptContext ==
    /\ Len(prompt.texts) < MaxRenders
    /\ \E team_order \in IterationOrders(prompt.context.teams) :
          prompt' = [prompt EXCEPT
                        !.texts = Append(@, to_prompt_context(prompt.context, team_order))]

InitPrompt ==
    /\ cmd = "to_prompt_context"
    /\ pc = "idle"
    /\ now = RefreshTime
    /\ disk = None
    /\ context = ProjectContext_new(ProjectId)
    /\ workload_data = WorkloadData_default
    /\ i = 0
    /\ members = <<>>
    /\ workloads = <<>>
    /\ table = <<>>
    /\ summary = None
    /\ ret = None
    /\ fetched = NothingFetched
    /\ NoCacheCall
    /\ NoSession
    /\ \E nl \in LabelCounts, nu \in UserCounts, nh \in IssueCounts2, teams \in TeamMaps,
          patterns \in PatternValues, last_updated \in {None, Some(to_rfc3339(RefreshTime))} :
          prompt = [context |-> RenderContext(nl, nu, nh, teams, patterns, last_updated),
                    texts |-> <<>>]

NextPrompt == ToPromptContext /\ UNCHANGED <<workVars, cacheVars, sessionVars>>

SpecPrompt == InitPrompt /\ [][NextPrompt]_vars

----------------------------------------------------------------------------
(* Properties of the rendered text *)

\* the lines of one kind, in the order of the text
LinesOf(text, kind) == SelectSeq(text, LAMBDA l : l.kind = kind)

HasHeader(text, header) ==
    \E k \in 1..Len(text) : text[k].kind = "header" /\ text[k].x = header

\* the first n entries of a collection, as far as there are any
FirstOf(s, n) == [k \in 1..(IF Len(s) < n THEN Len(s) ELSE n) |-> s[k]]

\* what the lines of one kind list: the first thing each prints
Listed(text, kind) == [k \in 1..Len(LinesOf(text, kind)) |-> LinesOf(text, kind)[k].x[1]]

\* C15: the text has the header of a section only if the collection behind
\* the section is not empty, and it lists the first 20 labels, the first 15
\* users and the first 10 hot issues at most, in the order of the collection.
C15_HeadersAndLimits ==
    \A r \in 1..Len(prompt.texts) :
       LET text == prompt.texts[r]
           c == prompt.context
       IN  /\ HasHeader(text, "**Available Labels:**") => c.labels # <<>>
           /\ HasHeader(text, "**Project Members:**") => c.users # <<>>
           /\ HasHeader(text, "**Known Teams:**") => DOMAIN c.teams # {}
           /\ HasHeader(text, "**Recent Activity:**") => c.hot_issues # <<>>
           /\ HasHeader(text, "**Common Patterns:**") =>
                  c.issue_patterns.most_used_labels # <<>>
           /\ Listed(text, "label") = [k \in DOMAIN FirstOf(c.labels, 20) |-> c.labels[k].name]
           /\ Listed(text, "user") = [k \in DOMAIN FirstOf(c.users, 15) |-> c.users[k].username]
           /\ Listed(text, "issue") = [k \in DOMAIN FirstOf(c.hot_issues, 10) |-> c.hot_issues[k].id]

C15_Witness ==
    /\ Len(prompt.texts) >= 1
    /\ Len(prompt.context.labels) = 21
    /\ Len(prompt.context.users) = 16
    /\ Len(prompt.context.hot_issues) = 11
    /\ DOMAIN prompt.context.teams = {}
    /\ Len(LinesOf(prompt.texts[1], "label")) = 20
    /\ Len(LinesOf(prompt.texts[1], "user")) = 15
    /\ Len(LinesOf(prompt.texts[1], "issue")) = 10
    /\ ~HasHeader(prompt.texts[1], "**Known Teams:**")
    /\ HasHeader(prompt.texts[1], "**Recent Activity:**")

\* the headers of a text and its last-updated line, in the order of the text
Sections(text) ==
    LET marks == SelectSeq(text, LAMBDA l : l.kind \in {"header", "updated"})
    IN  [k \in 1..Len(marks) |-> IF marks[k].kind = "updated" THEN "updated" ELSE marks[k].x]

SectionOrder == <<"**Available Labels:**", "**Project Members:**", "**Known Teams:**",
                  "**Recent Activity:**", "**Common Patterns:**", "updated">>

\* s lists some of the entries of order, each once, in the order of order
InOrder(s, order) ==
    \E pos \in [1..Len(s) -> 1..Len(order)] :
       /\ \A k \in 1..Len(s) : order[pos[k]] = s[k]
       /\ \A j, k \in 1..Len(s) : j < k => pos[j] < pos[k]

\* C16: to_prompt_context is deterministic: two renderings of equal field
\* values, a non-empty teams map included, are the same text, and the
\* sections come in the order Available Labels, Project Members, Known
\* Teams, Recent Activity, Common Patterns, then the last-updated line.
C16_Deterministic ==
    /\ \A r \in 1..Len(prompt.texts) : InOrder(Sections(prompt.texts[r]), SectionOrder)
    /\ Len(prompt.texts) = 2 => prompt.texts[1] = prompt.texts[2]

----------------------------------------------------------------------------
(* Config (src/src/config.rs), KenAgent (src/src/agent.rs) and the         *)
(* interactive session (src/src/interactive.rs).  session is the record    *)
(*   pc                  "readline", "connect" (inside                     *)
(*                       connect_to_mcp_server) or "ended"                 *)
(*   config, agent, mcp_client, mcp_tools, mcp_server_process              *)
(*                       the fields of KenSession                          *)
(*   config_file         Option<document>: ~/.ken/config.toml              *)
(*   server_env          Option<Config>: the values the held child process *)
(*                       got in its environment when it was spawned        *)
(*   running             the child processes that are alive                *)
(*   spawned, connections  counters naming processes and connections       *)
(*   retries, caller     connect_to_mcp_server: its counter, its caller    *)
(*   attempts, before, connected   history of the last connect call        *)
(*   lines               number of lines read                              *)
(*   last                history of the last line: input, response of the  *)
(*                       verification, whether the handler failed, whether *)
(*                       agent.chat was called                             *)
(*   end                 Option<why start_interactive returned>            *)

\* lines read by the shell
MaxLines == 3
\* "let mut retries = 5"
Retries == 5

\* what the current-user endpoint may answer: a transport error, or a status
\* with a body that is a user, a JSON object without username, or no JSON
UserResponses ==
    [status : {"2xx", "non_2xx", "error"}, body : {"user", "no_username", "not_json"}]

\* Config::verify
verify(resp) ==
    IF resp.status = "error" THEN Err
    ELSE IF resp.status = "2xx"
    THEN IF resp.body = "not_json" THEN Err ELSE Ok(<<>>)
    ELSE Err

Lines == {"", "  ", "exit", "EXIT", " Quit ", "/exit", "/QUIT", "exits", "/login", "/logout",
          "/restart-mcp", "/project g/r", "/projects", "hello", "/update-context", "/issues",
          "/mrs bug", "/create"}

\* str::trim and str::to_lowercase on these lines
trim(line) == CASE line = "  " -> "" [] line = " Quit " -> "Quit" [] OTHER -> line
to_lowercase(text) ==
    CASE text = "EXIT" -> "exit" [] text = "Quit" -> "quit" [] text = "/QUIT" -> "/quit"
      [] OTHER -> text

\* "matches!(trimmed.to_lowercase().as_str(), "exit" | "quit" | "/exit" | "/quit")"
is_exit(trimmed) == to_lowercase(trimmed) \in {"exit", "quit", "/exit", "/quit"}

\* what prompt_for_login can return: the URL and the token that were typed,
\* with or without a default project
NewConfigs ==
    [gitlab_url : {"https://gitlab.com"}, api_token : {"glpat-1"},
     default_project_id : {None, Some(ProjectId)}]

\* toml::to_string_pretty of a Config: [valid, toml], toml a table from keys
\* to values; a None is left out of the table
Config_to_toml(c) ==
    [valid |-> TRUE,
     toml |-> IF IsSome(c.default_project_id)
              THEN [gitlab_url |-> c.gitlab_url, api_token |-> c.api_token,
                    default_project_id |-> Unwrap(c.default_project_id)]
              ELSE [gitlab_url |-> c.gitlab_url, api_token |-> c.api_token]]

\* a config file that is not the TOML of a Config: truncated, or edited by hand
TruncatedToml == [valid |-> FALSE, toml |-> <<>>]

\* toml::from_str::<Config>
Config_from_toml(contents) ==
    IF contents.valid /\ {"gitlab_url", "api_token"} \subseteq DOMAIN contents.toml
    THEN Ok([gitlab_url |-> contents.toml.gitlab_url,
             api_token |-> contents.toml.api_token,
             default_project_id |->
                 IF "default_project_id" \in DOMAIN contents.toml
                 THEN Some(contents.toml.default_project_id) ELSE None])
    ELSE Err

\* Config::load; io is what the file system does
Config_load(file, io) ==
    IF io = "path_error" THEN Err
    ELSE IF IsNone(file) THEN Err
    ELSE IF io = "io_error" THEN Err
    ELSE Config_from_toml(Unwrap(file))

\* Config::save: the result and the file afterwards; fs::write either cannot
\* create the file ("io_error") or fails after truncating it ("write_error")
Config_save(file, c, io) ==
    CASE io = "ok" -> [ok |-> TRUE, file |-> Some(Config_to_toml(c))]
      [] io = "write_error" -> [ok |-> FALSE, file |-> Some(TruncatedToml)]
      [] OTHER -> [ok |-> FALSE, file |-> file]

\* KenAgent::default and KenAgent::with_mcp_tools: the agent and the tool
\* list bound to it
KenAgent_default == [kind |-> "default", tools |-> None]
KenAgent_with_mcp_tools(config, mcp_client, tools) ==
    [kind |-> "with_mcp_tools", tools |-> Some(tools)]

NoLine == [input |-> "", response |-> None, failed |-> FALSE, chat |-> FALSE]

\* KenSession::cleanup
cleanup(s) ==
    IF IsSome(s.mcp_server_process)
    THEN [s EXCEPT !.mcp_server_process = None,
                   !.server_env = None,
                   !.running = @ \ {Unwrap(s.mcp_server_process)}]
    ELSE s

\* "self.agent = ..." after a login, a restart or a refresh of the context
with_agent(s) ==
    [s EXCEPT !.agent = IF IsSome(s.config) /\ IsSome(s.mcp_client) /\ IsSome(s.mcp_tools)
                        THEN Some(KenAgent_with_mcp_tools(Unwrap(s.config),
                                                          Unwrap(s.mcp_client),
                                                          Unwrap(s.mcp_tools)))
                        ELSE Some(KenAgent_default)]

\* the rest of the handler that called start_mcp_server, once it returned
after_start(s, ok) ==
    CASE s.caller = "login" -> with_agent(s)
      [] s.caller = "restart" /\ ok /\ IsSome(s.mcp_client) /\ IsSome(s.mcp_tools) ->
             with_agent(s)
      [] OTHER -> s

\* one round of "while retries > 0" in connect_to_mcp_server, as it would be
\* if the client were stored before the tools are listed
connect_round_client_first(s, outcome) ==
    CASE outcome = "connected" ->
             [s EXCEPT !.mcp_tools = Some(s.connections + 1),
                       !.mcp_client = Some(s.connections + 1),
                       !.connections = @ + 1, !.attempts = @ + 1,
                       !.connected = Some(TRUE), !.pc = "readline"]
      [] outcome = "tools_failed" ->
             [s EXCEPT !.mcp_client = Some(s.connections + 1),
                       !.connections = @ + 1, !.attempts = @ + 1,
                       !.connected = Some(FALSE), !.pc = "readline"]
      [] OTHER ->
             [s EXCEPT !.retries = @ - 1, !.attempts = @ + 1,
                       !.connected = IF s.retries - 1 > 0 THEN None ELSE Some(FALSE),
                       !.pc = IF s.retries - 1 > 0 THEN "connect" ELSE "readline"]

\* one round of "while retries > 0" in connect_to_mcp_server; outcome is
\* what MCPClient::new and get_tools_list answer
connect_round(s, outcome) ==
    CASE outcome = "connected" ->
             [s EXCEPT !.mcp_tools = Some(s.connections + 1),
                       !.mcp_client = Some(s.connections + 1),
                       !.connections = @ + 1, !.attempts = @ + 1,
                       !.connected = Some(TRUE), !.pc = "readline"]
      [] outcome = "tools_failed" ->
             [s EXCEPT !.connections = @ + 1, !.attempts = @ + 1,
                       !.connected = Some(FALSE), !.pc = "readline"]
      [] OTHER ->
             [s EXCEPT !.retries = @ - 1, !.attempts = @ + 1,
                       !.connected = IF s.retries - 1 > 0 THEN None ELSE Some(FALSE),
                       !.pc = IF s.retries - 1 > 0 THEN "connect" ELSE "readline"]

\* KenSession::start_mcp_server up to its call of connect_to_mcp_server;
\* spawn says whether node could be started.  The child gets the token, the
\* URL and the default project of the config in its environment.
start_mcp_server(s, caller, spawn) ==
    LET entered == [s EXCEPT !.caller = caller, !.pc = "connect", !.retries = Retries,
                             !.attempts = 0, !.connected = None,
                             !.before = <<s.mcp_client, s.mcp_tools>>]
    IN  IF IsNone(s.config) THEN after_start([s EXCEPT !.caller = caller], FALSE)
        ELSE IF IsSome(s.mcp_server_process) THEN entered
        ELSE IF spawn = "failed" THEN after_start([s EXCEPT !.caller = caller], FALSE)
        ELSE [entered EXCEPT !.mcp_server_process = Some(s.spawned + 1),
                             !.server_env = s.config,
                             !.running = @ \cup {s.spawned + 1},
                             !.spawned = @ + 1]

\* the session after a round that read input and ran no handler that
\* changes it
Round(s, input, failed) ==
    [s EXCEPT !.lines = @ + 1,
              !.last = [input |-> input, response |-> None, failed |-> failed,
                        chat |-> FALSE]]

\* /login as it would be if the config were assigned before it is saved
login_save_config_first(s, new_config, io) ==
    LET r == Config_save(s.config_file, new_config, io)
    IN  [ok |-> r.ok, s |-> [s EXCEPT !.config_file = r.file, !.config = Some(new_config)]]

\* /login: "new_config.save()?; self.config = Some(new_config);"
login_save(s, new_config, io) ==
    LET r == Config_save(s.config_file, new_config, io)
    IN  [ok |-> r.ok,
         s |-> IF r.ok THEN [s EXCEPT !.config_file = r.file, !.config = Some(new_config)]
               ELSE [s EXCEPT !.config_file = r.file]]

\* /logout as it would be if the tool list were kept
logout_keeping_tools(s, removed) ==
    IF IsNone(s.config) THEN s
    ELSE IF removed # "ok" THEN [s EXCEPT !.last.failed = TRUE]
    ELSE [s EXCEPT !.config_file = None, !.config = None, !.agent = None,
                   !.mcp_client = None]

\* /logout; removed is what config_path and remove_file answer
logout(s, removed) ==
    IF IsNone(s.config) THEN s
    ELSE IF removed # "ok" THEN [s EXCEPT !.last.failed = TRUE]
    ELSE [s EXCEPT !.config_file = None, !.config = None, !.agent = None,
                   !.mcp_client = None, !.mcp_tools = None]

\* /restart-mcp as it would be if the connection were kept
restart_mcp_keeping_client(s, spawn) ==
    IF IsNone(s.config) THEN s
    ELSE start_mcp_server(cleanup(s), "restart", spawn)

\* /restart-mcp
restart_mcp(s, spawn) ==
    IF IsNone(s.config) THEN s
    ELSE start_mcp_server([cleanup(s) EXCEPT !.mcp_client = None, !.mcp_tools = None],
                          "restart", spawn)

\* "command[9..].trim()"
project_argument(command) == IF command = "/project g/r" THEN "g/r" ELSE ""

\* handle_project_command
handle_project_command(s, command, io) ==
    LET project_id == project_argument(command)
        config == [Unwrap(s.config) EXCEPT !.default_project_id = Some(project_id)]
        r == Config_save(s.config_file, config, io)
    IN  IF project_id = "" \/ IsNone(s.config) THEN s
        ELSE [s EXCEPT !.config = Some(config), !.config_file = r.file,
                       !.last.failed = ~r.ok]

\* /update-context as it would be without its tests of the config
update_context_unguarded(s) == with_agent(s)

\* /update-context: fetch_from_gitlab returns a context whatever GitLab
\* answers, and the agent is made anew whether or not the save succeeds
update_context(s) ==
    IF IsSome(s.config) /\ IsSome(Unwrap(s.config).default_project_id)
    THEN with_agent(s)
    ELSE s

\* the tests of handle_query and query_with_context, as they would be if a
\* query went to whatever agent there is
reaches_agent_with_any_agent(s) == IsSome(s.agent)

\* the tests of handle_query and query_with_context before agent.chat
reaches_agent(s) ==
    /\ IsSome(s.agent)
    /\ IsSome(s.config)
    /\ IsSome(Unwrap(s.config).default_project_id)

\* free text, /issues, /mrs and /create
QueryLines == {"exits", "hello", "/issues", "/mrs bug", "/create"}

----------------------------------------------------------------------------
(* KenSession::start_interactive: one action per way a round of the loop   *)
(* can go                                                                  *)

\* the loop is about to call readline
Reading == session.pc = "readline" /\ session.lines < MaxLines

\* readline returned Err: Ctrl-C, Ctrl-D, or any other error
ReadFails ==
    /\ Reading
    /\ \E err \in {"Interrupted", "Eof", "Err"} :
          LET s == Round(session, err, FALSE)
              s1 == IF err = "Err" THEN s ELSE cleanup(s)
          IN  session' = [s1 EXCEPT !.pc = "ended", !.end = Some(err)]

\* "if trimmed.is_empty() { continue; }"
ReadEmpty ==
    /\ Reading
    /\ \E line \in Lines :
          /\ trim(line) = ""
          /\ session' = Round(session, line, FALSE)

\* add_history_entry failed: "?" returns from start_interactive
HistoryFails ==
    /\ Reading
    /\ \E line \in Lines :
          /\ trim(line) # ""
          /\ session' = [Round(session, line, FALSE) EXCEPT
                            !.pc = "ended", !.end = Some("history")]

\* exit, quit, /exit, /quit
ReadExit ==
    /\ Reading
    /\ \E line \in Lines :
          /\ trim(line) # ""
          /\ is_exit(trim(line))
          /\ session' = [cleanup(Round(session, line, FALSE)) EXCEPT
                            !.pc = "ended", !.end = Some("exit")]

\* the line is given to process_input
Processed_input(line) == Reading /\ trim(line) # "" /\ ~is_exit(trim(line))

\* "/login": prompt_for_login, verify, save, start_mcp_server, and the agent
Cmd_Login ==
    /\ Processed_input("/login")
    /\ LET s == Round(session, "/login", FALSE)
       IN  \/ session' = [s EXCEPT !.last.failed = TRUE]
           \/ \E resp \in UserResponses :
                 /\ ~verify(resp).ok
                 /\ session' = [s EXCEPT !.last.response = Some(resp), !.last.failed = TRUE]
           \/ \E resp \in UserResponses, new_config \in NewConfigs,
                 io \in {"ok", "io_error", "write_error"}, spawn \in {"ok", "failed"} :
                 LET saved == login_save([s EXCEPT !.last.response = Some(resp)],
                                         new_config, io)
                 IN  /\ verify(resp).ok
                     /\ io # "ok" => spawn = "ok"
                     /\ session' = IF saved.ok
                                   THEN start_mcp_server(saved.s, "login", spawn)
                                   ELSE [saved.s EXCEPT !.last.failed = TRUE]

\* "/logout"
Cmd_Logout ==
    /\ Processed_input("/logout")
    /\ \E removed \in {"ok", "io_error"} :
          session' = logout(Round(session, "/logout", FALSE), removed)

\* "/restart-mcp"
Cmd_RestartMcp ==
    /\ Processed_input("/restart-mcp")
    /\ \E spawn \in {"ok", "failed"} :
          session' = restart_mcp(Round(session, "/restart-mcp", FALSE), spawn)

\* "/project <id>"
Cmd_Project ==
    /\ Processed_input("/project g/r")
    /\ \E io \in {"ok", "io_error", "write_error"} :
          session' = handle_project_command(Round(session, "/project g/r", FALSE),
                                            "/project g/r", io)

\* "/update-context"
Cmd_UpdateContext ==
    /\ Processed_input("/update-context")
    /\ session' = update_context(Round(session, "/update-context", FALSE))

\* free text (handle_query), /issues, /mrs, /create (query_with_context);
\* the form of /create can be left before the query is made
Cmd_Query ==
    /\ Reading
    /\ \E line \in QueryLines, form \in {"filled", "left"} :
          /\ Processed_input(line)
          /\ form = "left" => line = "/create"
          /\ session' = [Round(session, line, FALSE) EXCEPT
                            !.last.chat = (form = "filled" /\ reaches_agent(session))]

\* a command that leaves the session as it is; /projects can return an error
Cmd_Other ==
    /\ Reading
    /\ \E line \in Lines \ ({"/login", "/logout", "/restart-mcp", "/project g/r",
                            "/update-context"} \cup QueryLines),
          failed \in BOOLEAN :
          /\ Processed_input(line)
          /\ failed => (line = "/projects" /\ IsSome(session.config))
          /\ session' = Round(session, line, failed)

\* one round of the loop of connect_to_mcp_server and, when it returns, the
\* rest of the handler that called start_mcp_server
MCP_Attempt ==
    /\ session.pc = "connect"
    /\ \E outcome \in {"refused", "tools_failed", "connected"} :
          LET s == connect_round(session, outcome)
          IN  session' = IF s.pc = "connect" THEN s ELSE after_start(s, Unwrap(s.connected))

\* the config file when the program starts
ConfigFiles == {None, Some(TruncatedToml)} \cup {Some(Config_to_toml(c)) : c \in NewConfigs}

\* KenSession::new, up to its call of start_mcp_server
InitSession ==
    /\ cmd = "start_interactive"
    /\ pc = "idle"
    /\ now = RefreshTime
    /\ disk = None
    /\ context = ProjectContext_new(ProjectId)
    /\ workload_data = WorkloadData_default
    /\ i = 0
    /\ members = <<>>
    /\ workloads = <<>>
    /\ table = <<>>
    /\ summary = None
    /\ ret = None
    /\ fetched = NothingFetched
    /\ NoCacheCall
    /\ NoPrompt
    /\ \E file \in ConfigFiles, spawn \in {"ok", "failed"} :
          LET loaded == Config_load(file, "ok")
              config == IF loaded.ok THEN Some(loaded.val) ELSE None
          IN  session = start_mcp_server(
                        [pc |-> "readline", config |-> config, config_file |-> file,
                         agent |-> IF IsSome(config) THEN Some(KenAgent_default) ELSE None,
                         mcp_client |-> None, mcp_tools |-> None, mcp_server_process |-> None,
                         server_env |-> None,
                         running |-> {}, spawned |-> 0, connections |-> 0,
                         retries |-> 0, caller |-> "new", attempts |-> 0,
                         before |-> <<None, None>>, connected |-> None,
                         lines |-> 0, last |-> NoLine, end |-> None],
                        "new", spawn)

NextSession ==
    /\ \/ ReadFails
       \/ ReadEmpty
       \/ HistoryFails
       \/ ReadExit
       \/ Cmd_Login
       \/ Cmd_Logout
       \/ Cmd_RestartMcp
       \/ Cmd_Project
       \/ Cmd_UpdateContext
       \/ Cmd_Query
       \/ Cmd_Other
       \/ MCP_Attempt
    /\ UNCHANGED <<workVars, cacheVars, promptVars>>

SpecSession == InitSession /\ [][NextSession]_vars

----------------------------------------------------------------------------
(* Properties of the session *)

\* the verification of the last /login, when it got an answer
Verified == session.last.input = "/login" /\ IsSome(session.last.response)

\* C17: Config::verify succeeds only when the current-user endpoint answers
\* 2xx with a body that has a username; without a username the verification
\* fails and /login does not go on to save the config.
C17_VerifyNeedsUsername ==
    Verified =>
        LET resp == Unwrap(session.last.response)
            authenticated == resp.status = "2xx" /\ resp.body = "user"
        IN  /\ verify(resp).ok => authenticated
            /\ ~session.last.failed => authenticated

\* the lines that ask to leave: exit or quit in any letter case, with or
\* without a leading '/', spaces around them aside
ExitWords == {"exit", "EXIT", " Quit ", "/exit", "/QUIT"}

Ended == session.pc = "ended"

\* C18 as claimed: an error returned by a command or query handler never ends
\* the shell loop, which goes on to read the next line; the loop ends only on
\* exit or quit (any letter case, with or without '/'), on Ctrl-C, on Ctrl-D
\* or on a failure of the input stream.
C18_EndsOnlyOnExitOrInput ==
    /\ session.last.failed => session.pc = "readline"
    /\ Ended => Unwrap(session.end) \in {"exit", "Interrupted", "Eof", "Err"}
    /\ (Ended /\ Unwrap(session.end) = "exit") <=> session.last.input \in ExitWords

\* What does hold of the loop: a handler error never ends it, and besides
\* the ends above it ends when the line cannot be added to the history.
HandlerErrorsKeepLoop ==
    /\ session.last.failed => session.pc = "readline"
    /\ Ended => Unwrap(session.end) \in {"exit", "Interrupted", "Eof", "Err", "history"}
    /\ (Ended /\ Unwrap(session.end) = "exit") => session.last.input \in ExitWords
    /\ session.last.input \in ExitWords =>
           (Ended /\ Unwrap(session.end) \in {"exit", "history"})

\* C19: however the session ends (exit or quit, Ctrl-C, Ctrl-D, read error,
\* history error), the MCP server process it started has been killed: when
\* the loop is over no child process is held by the session or still alive.
C19_ServerKilledAtEnd ==
    Ended => (IsNone(session.mcp_server_process) /\ session.running = {})

\* C20: connect_to_mcp_server makes at most 5 attempts and returns: Ok only
\* after a connection and its tool listing both succeeded, with mcp_client
\* and mcp_tools set together; Err otherwise, with mcp_client and mcp_tools
\* as they were before the call.
C20_ConnectTerminates ==
    [][session.pc = "connect" =>
         /\ session'.attempts = session.attempts + 1
         /\ session'.attempts <= 5
         /\ session'.pc = "connect" =>
                (session'.retries < session.retries /\ session'.retries > 0)
         /\ session'.pc # "connect" =>
                /\ IsSome(session'.connected)
                /\ Unwrap(session'.connected) =>
                       /\ IsSome(session'.mcp_client)
                       /\ session'.mcp_tools = session'.mcp_client
                       /\ session'.mcp_client # session.before[1]
                /\ ~Unwrap(session'.connected) =>
                       /\ session'.mcp_client = session.before[1]
                       /\ session'.mcp_tools = session.before[2]]_vars

C20_Witness ==
    /\ session.pc = "readline"
    /\ session.connected = Some(FALSE)
    /\ session.attempts = 5
    /\ IsSome(session.mcp_client)
    /\ session.mcp_client = session.before[1]
    /\ session.mcp_tools = session.before[2]

----------------------------------------------------------------------------
(* Properties of login, logout and the session fields *)

\* the step is the handler of this command, run to its end or up to its call
\* of connect_to_mcp_server
Handles(command) ==
    /\ session.pc = "readline"
    /\ session'.pc # "ended"
    /\ session'.lines = session.lines + 1
    /\ session'.last.input = command

\* the fields of KenSession and the files around it are as they were
SameSession(s, t) == [t EXCEPT !.lines = s.lines, !.last = s.last] = s

\* C21: after a successful /logout in a logged-in session the config file is
\* gone and the session holds no config, no agent, no MCP client and no tool
\* list; /logout in a session that is not logged in changes nothing; and the
\* session config is otherwise changed only by /login and /project.
C21_LogoutClearsSession ==
    [][/\ (Handles("/logout") /\ IsSome(session.config) /\ ~session'.last.failed) =>
             /\ IsNone(session'.config_file)
             /\ IsNone(session'.config)
             /\ IsNone(session'.agent)
             /\ IsNone(session'.mcp_client)
             /\ IsNone(session'.mcp_tools)
       /\ (Handles("/logout") /\ IsNone(session.config)) =>
             (SameSession(session, session') /\ ~session'.last.failed)
       /\ session'.config # session.config =>
             (Handles("/login") \/ Handles("/logout") \/ Handles("/project g/r"))]_vars

\* a session that started logged in, with a server and a connection, and
\* whose first command was a successful /logout
C21_Witness ==
    /\ session.pc = "readline"
    /\ session.lines = 1
    /\ session.last.input = "/logout"
    /\ ~session.last.failed
    /\ IsSome(session.mcp_server_process)
    /\ session.connections = 1
    /\ IsNone(session.config)
    /\ IsNone(session.config_file)
    /\ IsNone(session.mcp_tools)

----------------------------------------------------------------------------
(* When the refresh_project_context tool refreshes *)

\* the tool has returned, and its load of the cache had succeeded
ToolReturned == cmd = "refresh_tool" /\ pc = "done" /\ IsSome(fetched.cache)

\* a context that is stale: without a timestamp, with one that cannot be
\* parsed, or with one more than 60 minutes in the past
OlderThanAnHour(c) ==
    \/ IsNone(c.last_updated)
    \/ ~Unwrap(c.last_updated).rfc3339
    \/ now - Unwrap(c.last_updated).t > 60

\* what a call of the tool does when stale(c) says whether the cached context
\* is stale: nothing but answer when it is not stale and no refresh is
\* forced; the three fetches, the stamp and the save otherwise (an answer Ok
\* then means that the stamped context is the document on disk)
RefreshesWhen(stale) ==
    ToolReturned =>
        LET cached == Unwrap(fetched.cache)
        IN  IF ~Unwrap(fetched.force) /\ ~stale
            THEN /\ IsNone(fetched.labels)
                 /\ IsNone(fetched.members)
                 /\ IsNone(fetched.milestones)
                 /\ context = cached
                 /\ disk = Some(to_string_pretty(cached))
                 /\ Unwrap(ret).ok
                 /\ Unwrap(ret).val.last_updated = cached.last_updated
            ELSE /\ IsSome(fetched.labels)
                 /\ IsSome(fetched.members)
                 /\ IsSome(fetched.milestones)
                 /\ Stamped(context)
                 /\ Unwrap(ret).ok =>
                        /\ disk = Some(to_string_pretty(context))
                        /\ Unwrap(ret).val.last_updated = Some(to_rfc3339(now))

\* C22: the refresh_project_context tool, called with force_refresh false or
\* absent on a context that is not stale, makes no GitLab fetch and no write,
\* and the cache file and its last_updated stay as they are; with
\* force_refresh true, or on a stale context, it fetches and saves the
\* context with a new last_updated.
C22_RefreshOnlyWhenStale ==
    RefreshesWhen(ToolReturned /\ OlderThanAnHour(Unwrap(fetched.cache)))

\* What does hold: the tool refreshes exactly when a refresh is forced or
\* is_stale answers true, and is_stale answers false up to 119 minutes.
RefreshFollowsIsStale ==
    RefreshesWhen(ToolReturned /\ is_stale(Unwrap(fetched.cache).last_updated, now))

\* the step is a /login that got its answers typed and then failed: at the
\* verification of the credentials or at the save of the config
FailedLogin ==
    /\ Handles("/login")
    /\ IsSome(session'.last.response)
    /\ session'.last.failed

\* C23 as claimed: a /login that fails at the verification or at the save
\* leaves the session exactly as it was (config, agent, MCP client, MCP tools
\* and the config file on disk), and the shell keeps running.
C23_FailedLoginChangesNothing ==
    [][FailedLogin => (SameSession(session, session') /\ session'.pc = "readline")]_vars

\* C23, amended: such a /login leaves config, agent, MCP client and MCP tools
\* exactly as they were and the shell keeps running; the config file is
\* unchanged when the verification fails or the save fails before the file is
\* opened for writing, and a save that fails while writing can leave a
\* truncated file in its place.
C23_FailedLoginKeepsSession ==
    [][FailedLogin =>
         /\ session'.pc = "readline"
         /\ SameSession(session, [session' EXCEPT !.config_file = session.config_file])
         /\ session'.config_file \in {session.config_file, Some(TruncatedToml)}
         /\ ~verify(Unwrap(session'.last.response)).ok =>
                session'.config_file = session.config_file]_vars

\* a session that started logged in and connected, and whose first command
\* was a /login that passed the verification and failed while writing
C23_Witness ==
    /\ session.pc = "readline"
    /\ session.lines = 1
    /\ session.last.input = "/login"
    /\ session.last.failed
    /\ IsSome(session.last.response)
    /\ verify(Unwrap(session.last.response)).ok
    /\ IsSome(session.config)
    /\ IsSome(session.agent)
    /\ IsSome(session.mcp_client)
    /\ session.config_file = Some(TruncatedToml)

\* KenSession::new has returned, or a command has been handled, or the shell
\* has ended
BetweenCommands == session.pc \in {"readline", "ended"}

\* C24: after the creation of the session and after every command, whether
\* it succeeded or failed, the session holds an agent if and only if it
\* holds a config.
C24_AgentIffConfig ==
    BetweenCommands => (IsSome(session.agent) <=> IsSome(session.config))

\* a session that was logged in and is logged out, after an /update-context:
\* neither a config nor an agent
C24_Witness ==
    /\ session.pc = "readline"
    /\ session.last.input = "/update-context"
    /\ IsSome(session.mcp_server_process)
    /\ IsNone(session.config)
    /\ IsNone(session.agent)

\* C25: while the shell accepts commands, a session that holds an MCP client
\* also holds the MCP tool list and the handle of an MCP server process: the
\* client and the tool list are set and cleared together, and no command
\* drops the process handle while it keeps the client.
C25_ClientHasToolsAndServer ==
    session.pc = "readline" =>
        /\ IsSome(session.mcp_client) <=> IsSome(session.mcp_tools)
        /\ IsSome(session.mcp_client) => IsSome(session.mcp_server_process)

\* after a /restart-mcp that killed the first server, started a second one
\* and connected to it
C25_Witness ==
    /\ session.pc = "readline"
    /\ session.last.input = "/restart-mcp"
    /\ session.mcp_server_process = Some(2)
    /\ session.running = {2}
    /\ IsSome(session.mcp_client)
    /\ session.mcp_tools = session.mcp_client
    /\ session.connections = 2

\* C26: whenever the session holds an MCP client, the MCP server process it
\* is connected to was started with the access token, the GitLab URL and the
\* default project of the session's current config, after any sequence of
\* /login, /logout, /project and /restart-mcp.
C26_ServerRunsWithCurrentConfig ==
    (session.pc = "readline" /\ IsSome(session.mcp_client)) =>
        session.server_env = session.config

\* C27: whenever the session holds an agent and a connected MCP client with
\* its tool list, that agent was built by KenAgent::with_mcp_tools with those
\* tools bound, directly after the start of a session with an existing
\* config too.
C27_AgentHasCurrentTools ==
    (/\ BetweenCommands
     /\ IsSome(session.agent)
     /\ IsSome(session.mcp_client)
     /\ IsSome(session.mcp_tools)) =>
        /\ Unwrap(session.agent).kind = "with_mcp_tools"
        /\ Unwrap(session.agent).tools = session.mcp_tools

\* a command has been handled and the shell is about to read the next line
AfterCommand ==
    /\ session.pc = "readline"
    /\ session.lines > 0
    /\ trim(session.last.input) # ""

\* the config persisted on disk: what Config::load would return, if anything
PersistedConfig ==
    LET loaded == Config_load(session.config_file, "ok")
    IN  IF loaded.ok THEN Some(loaded.val) ELSE None

\* C28: after every shell command, successful or failed, a failed write of
\* the config file included, the config in memory equals the config persisted
\* on disk: both absent, or both present with the same URL, token and default
\* project.
C28_ConfigMatchesDisk == AfterCommand => session.config = PersistedConfig

----------------------------------------------------------------------------
(* The total of open issues against the open issues of the project *)

\* every exchange of the refresh succeeded
AllFetchesSucceeded ==
    /\ \A f \in {fetched.labels, fetched.members, fetched.milestones, fetched.open_issues,
                 fetched.unassigned} : IsSome(f) /\ Unwrap(f).ok
    /\ \A k \in 1..Len(fetched.users) : fetched.users[k].issues.ok /\ fetched.users[k].mrs.ok

\* the users an issue of GitLab's JSON is assigned to
AssigneesOf(issue) ==
    (IF issue.assignee.t = "object" THEN {issue.assignee.username} ELSE {})
        \cup (IF issue.assignees.t = "array"
              THEN {issue.assignees.items[k].username : k \in 1..Len(issue.assignees.items)}
              ELSE {})

\* the exchanges answered from one state of the project: the two requests
\* for the open issues got the same list, and each member's request got the
\* open issues that member is assigned to
OneSnapshot ==
    LET open == BodyOf(fetched.open_issues)
    IN  /\ BodyOf(fetched.unassigned) = open
        /\ \A k \in 1..Len(fetched.users) :
              Range(Iids(fetched.users[k].issues.body)) =
                  {open[j].iid : j \in {n \in 1..Len(open) :
                                           context.users[k].username \in AssigneesOf(open[n])}}

\* C29: for a refresh in which every fetch succeeds, total_open_issues is the
\* number of open issues the project-wide fetch returned (the length of
\* hot_issues): every open issue counts once, also one with several assignees
\* or with an assignee who is not a member of the project.
C29_TotalIsOpenIssueCount ==
    (FFReturned /\ AllFetchesSucceeded /\ OneSnapshot) =>
        /\ Len(context.hot_issues) = Len(BodyOf(fetched.open_issues))
        /\ context.workload_data.total_open_issues = Len(context.hot_issues)

\* C30: no chat call is made while the session is logged out: between a
\* /logout and the next /login every free-text query and every /issues, /mrs
\* or /create is answered with a message, without a call of the agent and
\* without a change of the session; and a query reaches the agent only when
\* agent, config and default project are all set.
C30_NoChatWhileLoggedOut ==
    [][/\ \A line \in {"exits", "hello", "/issues", "/mrs bug", "/create"} :
            (Handles(line) /\ IsNone(session.config)) =>
                /\ ~session'.last.chat
                /\ ~session'.last.failed
                /\ SameSession(session, session')
       /\ (session'.last.chat /\ session'.lines # session.lines) =>
            /\ session'.last.input \in {"exits", "hello", "/issues", "/mrs bug", "/create"}
            /\ IsSome(session.agent)
            /\ IsSome(session.config)
            /\ IsSome(Unwrap(session.config).default_project_id)
            /\ SameSession(session, session')]_vars

\* a session that was logged in, has been logged out, and was then asked
\* for the issues: no chat call
C30_Witness ==
    /\ session.pc = "readline"
    /\ session.last.input = "/issues"
    /\ ~session.last.chat
    /\ IsSome(session.mcp_server_process)
    /\ IsNone(session.config)
    /\ IsNone(session.agent)

====
